---------------------------- MODULE Spec2Model ----------------------------
(***************************************************************************)
(* Model of the large-message protocol of GGWaveService                    *)
(* (src/src/lib/ggwave-service.ts, first class body, lines 22-1981):       *)
(* sendLargeData on the sender side, handleReceivedPacket with its FEC     *)
(* recovery passes and session timers on the receiver side.                *)
(*                                                                         *)
(* Representation choices                                                  *)
(*  - a byte is an integer 0..255, a Uint8Array a sequence of bytes;       *)
(*  - a message is the sequence of its UTF-8 bytes (ASCII text);           *)
(*  - a frame is the tuple raw.split(':') of its colon separated fields;   *)
(*    numeric fields are the integer parseInt yields;                      *)
(*  - a base-64 text is the sequence of its symbols: 0..63 for the         *)
(*    alphabet A-Za-z0-9+/, B64_PAD for '=', B64_BAD for any other char;   *)
(*  - the flags field is the sequence of its characters;                   *)
(*  - a parity id is the tuple seq.split('-'), e.g. <<1, 3, "0">>;         *)
(*  - MD5 is an ideal (collision free) hash: the digest of a byte string   *)
(*    is that string behind the tag "md5"; the empty text is <<>>;         *)
(*  - gzip is a framing with a magic header and an ISIZE trailer.          *)
(***************************************************************************)
EXTENDS Integers, Sequences, FiniteSets, TLC

(***************************************************************************)
(* Bounds of the model                                                     *)
(***************************************************************************)
\* bytes per DATA chunk; the program uses 75, the model scales it down
CHUNK_SIZE == 2
\* longest message (in bytes) a sender is given
MaxMsgLen == 4
\* how many DATA frames of one session the scenario channel may withhold
MaxWithheld == 2
\* how many extra copies of already fed frames the open channel may feed
MaxDup == 1
\* how many corrupted DATA frames the open channel may feed
MaxCorrupt == 1
\* how many frames of other origin the receiver may be fed
MaxForeign == 2
\* how many calls of sendLargeData, resendChunks and resendParity the service
\* that retains its send sessions is given
MaxCalls == 2
\* how many values the nonce of a session id has (1,000,000 in the program)
NonceCount == 2
\* the last second of the sender's clock
MaxClock == 1
\* how many times a send session is deleted or the store is cleared
MaxRemovals == 1

\* how many STARTs a receiver hears
MaxStarts == 2
\* the largest chunk count the group layout is computed for
MaxTotal == 12

(***************************************************************************)
(* Program constants                                                       *)
(***************************************************************************)
\* bytes per data packet in the program (CHUNK_SIZE above is the scaled value)
CHUNK_SIZE_BYTES == 75
SESSION_TIMEOUT_BASE_MS == 30000
SESSION_TIMEOUT_PER_PACKET_MS == 5000
MIN_SESSION_TIMEOUT_MS == 60000


\* values of the bytes of the messages that are sent
PayloadBytes == {0, 65}

SIDS == {"A", "B"}

(***************************************************************************)
(* Generic helpers                                                         *)
(***************************************************************************)
Min(a, b) == IF a <= b THEN a ELSE b
Max(a, b) == IF a >= b THEN a ELSE b

Range(s) == {s[i] : i \in DOMAIN s}

\* ceil(a / b) for a >= 0, b > 0
CeilDiv(a, b) == (a + b - 1) \div b

\* all sequences over S of length 0..n
SeqsUpTo(S, n) == UNION {[1..k -> S] : k \in 0..n}

RECURSIVE Concat(_)
Concat(ss) == IF ss = <<>> THEN <<>> ELSE Head(ss) \o Concat(Tail(ss))

\* the elements of a finite set of integers in ascending order
RECURSIVE SortedSeq(_)
SortedSeq(S) ==
    IF S = {} THEN <<>>
    ELSE LET m == CHOOSE x \in S : \A y \in S : x <= y
         IN  <<m>> \o SortedSeq(S \ {m})

IsPrefix(s, t) == Len(s) <= Len(t) /\ SubSeq(t, 1, Len(s)) = s

(***************************************************************************)
(* Byte arithmetic                                                         *)
(***************************************************************************)
\* a ^ b on integers 0..255
RECURSIVE BitXor(_, _)
BitXor(a, b) ==
    IF a = 0 THEN b
    ELSE IF b = 0 THEN a
    ELSE (((a % 2) + (b % 2)) % 2) + 2 * BitXor(a \div 2, b \div 2)

\* n & 0xFF for any integer n (two's complement)
AndFF(n) == n % 256

\* Math.round(p / q) for integers p, q with q # 0: round half towards +Infinity
MathRound(p, q) ==
    LET pp == IF q < 0 THEN 0 - p ELSE p
        qq == IF q < 0 THEN 0 - q ELSE q
    IN  (2 * pp + qq) \div (2 * qq)

\* new Uint8Array(size) followed by set(chunk): chunk right-padded with zeros
Pad(chunk, size) == [j \in 1..size |-> IF j <= Len(chunk) THEN chunk[j] ELSE 0]

\* the "remove trailing zeros" loop: the length that is kept
RECURSIVE TrimmedLength(_, _)
TrimmedLength(data, len) ==
    IF len > 0 /\ data[len] = 0 THEN TrimmedLength(data, len - 1) ELSE len

StripTrailingZeros(data) == SubSeq(data, 1, TrimmedLength(data, Len(data)))

(***************************************************************************)
(* Codec utilities                                                         *)
(***************************************************************************)
B64_PAD == 64
B64_BAD == 65

\* btoa(String.fromCharCode(...bytes))
RECURSIVE btoa(_)
btoa(bytes) ==
    IF Len(bytes) = 0 THEN <<>>
    ELSE IF Len(bytes) = 1 THEN
        LET n == bytes[1] * 65536
        IN  <<n \div 262144, (n \div 4096) % 64, B64_PAD, B64_PAD>>
    ELSE IF Len(bytes) = 2 THEN
        LET n == bytes[1] * 65536 + bytes[2] * 256
        IN  <<n \div 262144, (n \div 4096) % 64, (n \div 64) % 64, B64_PAD>>
    ELSE
        LET n == bytes[1] * 65536 + bytes[2] * 256 + bytes[3]
        IN  <<n \div 262144, (n \div 4096) % 64, (n \div 64) % 64, n % 64>>
            \o btoa(SubSeq(bytes, 4, Len(bytes)))

\* atob on a text that passed the checks of validateAndDecodeBase64
RECURSIVE atob(_)
atob(text) ==
    IF Len(text) = 0 THEN <<>>
    ELSE
        LET q == SubSeq(text, 1, 4)
            sx(i) == IF q[i] = B64_PAD THEN 0 ELSE q[i]
            n == sx(1) * 262144 + sx(2) * 4096 + sx(3) * 64 + sx(4)
            b1 == n \div 65536
            b2 == (n \div 256) % 256
            b3 == n % 256
            out == IF q[3] = B64_PAD THEN <<b1>>
                   ELSE IF q[4] = B64_PAD THEN <<b1, b2>>
                   ELSE <<b1, b2, b3>>
        IN  out \o atob(SubSeq(text, 5, Len(text)))

\* number of '=' characters at the end of the text
RECURSIVE TrailingPads(_)
TrailingPads(text) ==
    IF Len(text) > 0 /\ text[Len(text)] = B64_PAD
    THEN 1 + TrailingPads(SubSeq(text, 1, Len(text) - 1))
    ELSE 0

\* /^[A-Za-z0-9+/]*={0,2}$/.test(text)
base64Regex(text) ==
    LET pads == TrailingPads(text)
    IN  /\ pads <= 2
        /\ \A i \in 1..(Len(text) - pads) : text[i] \in 0..63

\* a validation that takes every text
validateAndDecodeBase64Lax(base64String) == [ok |-> TRUE, bytes |-> <<>>]

\* the Uint8Array, or null (ok = FALSE) when the text is rejected
validateAndDecodeBase64(base64String) ==
    IF ~base64Regex(base64String) THEN [ok |-> FALSE, bytes |-> <<>>]
    ELSE IF Len(base64String) % 4 # 0 THEN [ok |-> FALSE, bytes |-> <<>>]
    ELSE [ok |-> TRUE, bytes |-> atob(base64String)]

\* CryptoJS.MD5 rendered in base-64: an ideal hash of the byte string
md5Base64(data) == <<"md5">> \o data

\* data.slice(i, i + size) for i = 0, size, 2*size, ...
chunkBytes(data, size) ==
    [k \in 1..CeilDiv(Len(data), size) |->
        SubSeq(data, (k - 1) * size + 1, Min(k * size, Len(data)))]

\* gzip: magic byte, the stored payload, ISIZE (payload length, little endian)
GZ_MAGIC == 31
compressData(data) ==
    <<GZ_MAGIC>> \o data \o <<Len(data) % 256, Len(data) \div 256>>

\* gunzip: ok = FALSE stands for the rejected promise
decompressData(data) ==
    IF Len(data) < 3 THEN [ok |-> FALSE, bytes |-> <<>>]
    ELSE IF data[1] # GZ_MAGIC THEN [ok |-> FALSE, bytes |-> <<>>]
    ELSE IF data[Len(data) - 1] + 256 * data[Len(data)] # Len(data) - 3
         THEN [ok |-> FALSE, bytes |-> <<>>]
    ELSE [ok |-> TRUE, bytes |-> SubSeq(data, 2, Len(data) - 2)]

\* new TextEncoder().encode(message) / new TextDecoder().decode(bytes) on ASCII
TextEncode(message) == message
TextDecode(bytes) == bytes

\* 'FILE:'
FILE_PREFIX == <<70, 73, 76, 69, 58>>
StartsWithFILE(message) == IsPrefix(FILE_PREFIX, message)

\* text.split(':') on a text given by its char codes (':' is 58)
RECURSIVE SplitColon(_)
SplitColon(text) ==
    IF \A i \in DOMAIN text : text[i] # 58 THEN <<text>>
    ELSE LET i == CHOOSE x \in DOMAIN text :
                      text[x] = 58 /\ \A y \in 1..(x - 1) : text[y] # 58
         IN  <<SubSeq(text, 1, i - 1)>> \o SplitColon(SubSeq(text, i + 1, Len(text)))

\* fields.join(':')
RECURSIVE JoinBytes(_)
JoinBytes(fields) ==
    IF Len(fields) = 0 THEN <<>>
    ELSE IF Len(fields) = 1 THEN fields[1]
    ELSE fields[1] \o <<58>> \o JoinBytes(Tail(fields))

\* the base-64 symbol a char code stands for
B64Symbol(c) ==
    IF c \in 65..90 THEN c - 65
    ELSE IF c \in 97..122 THEN c - 71
    ELSE IF c \in 48..57 THEN c + 4
    ELSE IF c = 43 THEN 62
    ELSE IF c = 47 THEN 63
    ELSE IF c = 61 THEN B64_PAD
    ELSE B64_BAD

\* the atob of the platform on a text given by its char codes: ASCII
\* whitespace is skipped, one or two '=' at the end of a text whose length is
\* a multiple of 4 are dropped; what is left must be base-64 symbols and must
\* not have length 1 modulo 4, or atob throws (ok = FALSE)
atobText(text) ==
    LET s == SelectSeq(text, LAMBDA c : c \notin {9, 10, 12, 13, 32})
        n == Len(s)
        cut == IF n % 4 = 0 /\ n > 0 /\ s[n] = 61
               THEN (IF s[n - 1] = 61 THEN 2 ELSE 1)
               ELSE 0
        t == [i \in 1..(n - cut) |-> B64Symbol(s[i])]
        padded == t \o [i \in 1..((4 - (Len(t) % 4)) % 4) |-> B64_PAD]
    IN  IF Len(t) % 4 = 1 \/ \E i \in DOMAIN t : t[i] \notin 0..63
        THEN [ok |-> FALSE, bytes |-> <<>>]
        ELSE [ok |-> TRUE, bytes |-> atob(padded)]

\* the text handleFilePacket returns when it caught an error: it starts with
\* the cross mark (U+274C in UTF-8)
FileErrorText == <<226, 157, 140>>

\* handleFilePacket(raw), raw given by the fields after 'FILE'; storeOk tells
\* whether fileService.storeBatch resolves. ret is the text returned (<<>>
\* for null), batch the batch passed to storeBatch (if it got that far)
handleFilePacket(fields, storeOk) ==
    IF Len(fields) < 3 THEN [ret |-> <<>>, batch |-> <<>>]
    ELSE LET base64Data == JoinBytes(SubSeq(fields, 3, Len(fields)))
             zipData == atobText(base64Data)
             batch == [batchId |-> fields[1], filename |-> fields[2],
                       zipData |-> zipData.bytes]
         IN  IF ~zipData.ok THEN [ret |-> FileErrorText, batch |-> <<>>]
             ELSE IF storeOk THEN [ret |-> <<>>, batch |-> <<batch>>]
             ELSE [ret |-> FileErrorText, batch |-> <<batch>>]

\* the words the plain texts of the model start with, by their char codes
PlainWords == [hello |-> <<104, 101, 108, 108, 111>>, hi |-> <<104, 105>>]

\* the text raw of a frame that is no packet, from its fields
RawText(parts) == JoinBytes(<<PlainWords[parts[1]]>> \o Tail(parts))

(***************************************************************************)
(* Maps (JavaScript Map) as functions; the parity map keeps insertion      *)
(* order, which attemptAggressiveRecovery iterates                         *)
(***************************************************************************)
EmptyMap == [x \in {} |-> <<>>]

MapSet(m, k, v) == [x \in (DOMAIN m) \cup {k} |-> IF x = k THEN v ELSE m[x]]

MapDelete(m, k) == [x \in (DOMAIN m) \ {k} |-> m[x]]

\* apply the entries of r to m, in any order (the keys of r are distinct)
MapMerge(m, r) ==
    [x \in (DOMAIN m) \cup (DOMAIN r) |-> IF x \in DOMAIN r THEN r[x] ELSE m[x]]

ParityHas(parity, key) == \E i \in DOMAIN parity : parity[i].key = key

ParityGet(parity, key) ==
    parity[CHOOSE i \in DOMAIN parity : parity[i].key = key].data

\* Map.set: a new key is appended, an existing key keeps its position
ParitySet(parity, key, data) ==
    IF ParityHas(parity, key)
    THEN [i \in DOMAIN parity |->
            IF parity[i].key = key THEN [key |-> key, data |-> data] ELSE parity[i]]
    ELSE Append(parity, [key |-> key, data |-> data])

(***************************************************************************)
(* FEC schemes and parity ids                                              *)
(***************************************************************************)
FEC_SCHEMES ==
    [ NONE |-> [key |-> "NONE", groupSize |-> 0, parityCount |-> 0, overlap |-> FALSE],
      BASIC_4 |-> [key |-> "BASIC_4", groupSize |-> 4, parityCount |-> 1, overlap |-> FALSE],
      BASIC_2 |-> [key |-> "BASIC_2", groupSize |-> 2, parityCount |-> 1, overlap |-> FALSE],
      OVERLAPPING_3 |->
          [key |-> "OVERLAPPING_3", groupSize |-> 3, parityCount |-> 1, overlap |-> TRUE],
      STRONG_OVERLAPPING_3 |->
          [key |-> "STRONG_OVERLAPPING_3", groupSize |-> 3, parityCount |-> 3, overlap |-> TRUE] ]

SchemeKeys == DOMAIN FEC_SCHEMES

Schemes == {FEC_SCHEMES[k] : k \in SchemeKeys}

DEFAULT_FEC_SCHEME == FEC_SCHEMES.STRONG_OVERLAPPING_3

\* the characters of the keys of FEC_SCHEMES
KeyChars ==
    [ NONE |-> <<"N","O","N","E">>,
      BASIC_4 |-> <<"B","A","S","I","C","_","4">>,
      BASIC_2 |-> <<"B","A","S","I","C","_","2">>,
      OVERLAPPING_3 |-> <<"O","V","E","R","L","A","P","P","I","N","G","_","3">>,
      STRONG_OVERLAPPING_3 |->
          <<"S","T","R","O","N","G","_","O","V","E","R","L","A","P","P","I","N","G","_","3">> ]

\* p.toString() for a parity index
DigitStr == <<"0", "1", "2">>

\* `O${oIndex}`
ONames == <<"O0", "O1", "O2", "O3", "O4", "O5", "O6", "O7", "O8", "O9">>
OType(oIndex) == ONames[oIndex + 1]

\* type.startsWith('O')
StartsWithO(type) == type \in Range(ONames)

\* parseInt(type) for the types "0", "1", "2"
ParseIntType(type) == CHOOSE p \in 0..2 : DigitStr[p + 1] = type

\* a numeric token of a parity id is NaN when parseInt fails; the tokens of
\* a split on '-' never carry a sign, so a negative number stands for NaN
IsNaN(n) == n < 0

parseSequencia(seq) ==
    IF Len(seq) < 2
    THEN [inicio |-> 0, fim |-> 0, tipo |-> "0", isValid |-> FALSE]
    ELSE LET inicio == seq[1]
             fim == seq[2]
             tipo == IF Len(seq) >= 3 /\ seq[3] # "" THEN seq[3] ELSE "0"
         IN  [inicio |-> inicio, fim |-> fim, tipo |-> tipo,
              isValid |-> ~IsNaN(inicio) /\ ~IsNaN(fim) /\ inicio <= fim /\ inicio > 0]

createParityKey(inicio, fim, tipo) == <<inicio, fim, tipo>>

normalizeSequencia(seq) ==
    LET parsed == parseSequencia(seq)
    IN  IF ~parsed.isValid THEN seq
        ELSE createParityKey(parsed.inicio, parsed.fim, parsed.tipo)

(***************************************************************************)
(* Group layout                                                            *)
(***************************************************************************)
\* first loop of generateOverlappingGroups: i = 1, 4, 7, ...
RECURSIVE MainGroupsFrom(_, _)
MainGroupsFrom(i, totalPackets) ==
    IF i > totalPackets THEN <<>>
    ELSE <<[start |-> i, end |-> Min(i + 2, totalPackets), type |-> "0"]>>
         \o MainGroupsFrom(i + 3, totalPackets)

\* an oIndex that advances only when a group is emitted
RECURSIVE OverlappingGroupsFromDense(_, _, _, _)
OverlappingGroupsFromDense(i, oIndex, totalPackets, mainGroupKeys) ==
    IF i > totalPackets THEN <<>>
    ELSE IF i + 2 <= totalPackets /\ <<i, i + 2>> \notin mainGroupKeys
    THEN <<[start |-> i, end |-> i + 2, type |-> OType(oIndex)]>>
         \o OverlappingGroupsFromDense(i + 1, oIndex + 1, totalPackets, mainGroupKeys)
    ELSE OverlappingGroupsFromDense(i + 1, oIndex, totalPackets, mainGroupKeys)

\* second loop of generateOverlappingGroups: i = 2, 3, ..., with its oIndex
RECURSIVE OverlappingGroupsFrom(_, _, _, _)
OverlappingGroupsFrom(i, oIndex, totalPackets, mainGroupKeys) ==
    IF i > totalPackets THEN <<>>
    ELSE IF i + 2 <= totalPackets
    THEN (IF <<i, i + 2>> \notin mainGroupKeys
          THEN <<[start |-> i, end |-> i + 2, type |-> OType(oIndex)]>>
          ELSE <<>>)
         \o OverlappingGroupsFrom(i + 1, oIndex + 1, totalPackets, mainGroupKeys)
    ELSE OverlappingGroupsFrom(i + 1, oIndex, totalPackets, mainGroupKeys)

generateOverlappingGroups(totalPackets) ==
    LET mainGroups == MainGroupsFrom(1, totalPackets)
        mainGroupKeys == {<<g.start, g.end>> : g \in Range(mainGroups)}
    IN  mainGroups \o OverlappingGroupsFrom(2, 0, totalPackets, mainGroupKeys)

\* the loops of the standard branch of generateFECGroups: i = 0, groupSize, ...
RECURSIVE StandardGroupsFrom(_, _, _)
StandardGroupsFrom(i, totalPackets, fecScheme) ==
    IF i >= totalPackets THEN <<>>
    ELSE [p \in 1..fecScheme.parityCount |->
             [start |-> i + 1,
              end |-> Min(i + fecScheme.groupSize, totalPackets),
              type |-> DigitStr[p]]]
         \o StandardGroupsFrom(i + fecScheme.groupSize, totalPackets, fecScheme)

generateFECGroups(totalPackets, fecScheme) ==
    IF fecScheme.groupSize = 0 THEN <<>>
    ELSE IF fecScheme.overlap THEN generateOverlappingGroups(totalPackets)
    ELSE StandardGroupsFrom(0, totalPackets, fecScheme)

(***************************************************************************)
(* Parity generation                                                       *)
(***************************************************************************)
\* XOR-accumulate (byte_i * weight_i) & 0xFF over the chunks, at position j
RECURSIVE WeightedXorAt(_, _, _, _)
WeightedXorAt(chunks, weights, j, size) ==
    IF Len(chunks) = 0 THEN 0
    ELSE BitXor(AndFF(Pad(chunks[Len(chunks)], size)[j] * weights[Len(chunks)]),
                WeightedXorAt(SubSeq(chunks, 1, Len(chunks) - 1), weights, j, size))

xorBytes(chunks, size) ==
    [j \in 1..size |-> WeightedXorAt(chunks, [i \in DOMAIN chunks |-> 1], j, size)]

generateParityData(chunks, scheme) ==
    IF scheme.parityCount = 0 THEN <<>>
    ELSE
        LET primaryParity == xorBytes(chunks, CHUNK_SIZE)
            secondaryParity ==
                [j \in 1..CHUNK_SIZE |->
                    WeightedXorAt(chunks, [i \in DOMAIN chunks |-> i], j, CHUNK_SIZE)]
            tertiaryParity ==
                [j \in 1..CHUNK_SIZE |->
                    WeightedXorAt(chunks, [i \in DOMAIN chunks |-> i * i], j, CHUNK_SIZE)]
        IN  <<primaryParity>>
            \o (IF scheme.parityCount >= 2 THEN <<secondaryParity>> ELSE <<>>)
            \o (IF scheme.parityCount >= 3 THEN <<tertiaryParity>> ELSE <<>>)

(***************************************************************************)
(* Recovery solver                                                         *)
(***************************************************************************)
\* an adjustment that leaves the present chunks out
XorIntoParityNone(parityData, present) == parityData

\* parity.slice() with recovered[j] ^= padded[j] for j < CHUNK_SIZE, for all
\* the given chunks; a typed array ignores writes past its length
XorIntoParity(parityData, present) ==
    LET x == xorBytes(present, CHUNK_SIZE)
    IN  [j \in 1..Len(parityData) |->
            IF j <= CHUNK_SIZE THEN BitXor(parityData[j], x[j]) ELSE parityData[j]]

\* adjusted[j] ^= (padded[j] * weight) & 0xFF for the present chunks
XorWeightedIntoParity(parityData, present, weights) ==
    [j \in 1..Len(parityData) |->
        IF j <= CHUNK_SIZE
        THEN BitXor(parityData[j], WeightedXorAt(present, weights, j, CHUNK_SIZE))
        ELSE parityData[j]]

\* the per byte 2x2 solve of the double branch; a and b are read from the
\* adjusted parities and are undefined past their lengths (NaN arithmetic)
SolveTwo(adjustedPrimary, adjustedSecondary, weight1, weight2, j) ==
    LET aDef == j <= Len(adjustedPrimary)
        bDef == j <= Len(adjustedSecondary)
        a == IF aDef THEN adjustedPrimary[j] ELSE 0
        b == IF bDef THEN adjustedSecondary[j] ELSE 0
        y == IF aDef /\ bDef
             THEN AndFF(MathRound(b - (weight1 * a), weight2 - weight1))
             ELSE 0
        x == AndFF(BitXor(a, y))
    IN  IF weight1 # weight2
        THEN <<x, y>>
        ELSE <<AndFF(a \div 2), AndFF(a \div 2)>>

\* the per byte 3x3 elimination of the triple branch, in exact arithmetic;
\* every quotient of the source is a rational number num/den
SolveThree(adjP, adjS, adjT, w21, w22, w23, j) ==
    LET def == j <= Len(adjP) /\ j <= Len(adjS) /\ j <= Len(adjT)
        a == IF def THEN adjP[j] ELSE 0
        b == IF def THEN adjS[j] ELSE 0
        c == IF def THEN adjT[j] ELSE 0
        w31 == w21 * w21
        w32 == w22 * w22
        w33 == w23 * w23
        b2 == b - w21 * a
        c2 == c - w31 * a
        w22_new == w22 - w21
        w23_new == w23 - w21
        w32_new == w32 - w31
        w33_new == w33 - w31
        \* mult32 = w32_new / w22_new, kept as the fraction m32n / m32d
        m32n == w32_new
        m32d == w22_new
        \* c3 = c2 - mult32 * b2 and w33_final, over the denominator m32d
        c3n == c2 * m32d - m32n * b2
        w33fn == w33_new * m32d - m32n * w23_new
        \* z = c3 / w33_final
        zn == IF w33fn # 0 THEN c3n ELSE 0
        zd == IF w33fn # 0 THEN w33fn ELSE 1
        \* y = (b2 - w23_new * z) / w22_new
        yn == IF w22_new # 0 THEN b2 * zd - w23_new * zn ELSE 0
        yd == IF w22_new # 0 THEN zd * w22_new ELSE 1
        \* x = a - y - z
        xn == a * yd * zd - yn * zd - zn * yd
        xd == yd * zd
    IN  IF def /\ m32d # 0
        THEN <<AndFF(MathRound(xn, xd)), AndFF(MathRound(yn, yd)),
               AndFF(MathRound(zn, zd))>>
        ELSE <<0, 0, 0>>

recoverChunks(chunks, parity, groupStart, groupSize, scheme) ==
    IF scheme.parityCount = 0 THEN EmptyMap
    ELSE
        LET groupEnd == groupStart + groupSize - 1
            missingIndices ==
                SortedSeq({i \in groupStart..groupEnd : i \notin DOMAIN chunks})
            presentIndices ==
                SortedSeq({i \in groupStart..groupEnd : i \in DOMAIN chunks})
            presentChunks == [k \in DOMAIN presentIndices |-> chunks[presentIndices[k]]]
            presentWeights ==
                [k \in DOMAIN presentIndices |-> presentIndices[k] - groupStart + 1]
            presentSquares ==
                [k \in DOMAIN presentIndices |-> presentWeights[k] * presentWeights[k]]
            primaryParityKey == createParityKey(groupStart, groupEnd, "0")
            secondaryParityKey == createParityKey(groupStart, groupEnd, "1")
            tertiaryParityKey == createParityKey(groupStart, groupEnd, "2")
            hasPrimary == ParityHas(parity, primaryParityKey)
            hasSecondary == ParityHas(parity, secondaryParityKey)
        IN
        IF Len(missingIndices) = 1 /\ hasPrimary THEN
            LET recoveredData ==
                    XorIntoParity(ParityGet(parity, primaryParityKey), presentChunks)
                actualLength == TrimmedLength(recoveredData, Len(recoveredData))
            IN  IF actualLength > 0
                THEN MapSet(EmptyMap, missingIndices[1],
                            SubSeq(recoveredData, 1, actualLength))
                ELSE EmptyMap
        ELSE IF Len(missingIndices) = 2 /\ hasPrimary /\ hasSecondary THEN
            LET adjustedPrimary ==
                    XorIntoParity(ParityGet(parity, primaryParityKey), presentChunks)
                adjustedSecondary ==
                    XorWeightedIntoParity(ParityGet(parity, secondaryParityKey),
                                          presentChunks, presentWeights)
                weight1 == missingIndices[1] - groupStart + 1
                weight2 == missingIndices[2] - groupStart + 1
                sol == [j \in 1..CHUNK_SIZE |->
                           SolveTwo(adjustedPrimary, adjustedSecondary,
                                    weight1, weight2, j)]
                recoveredData1 == [j \in 1..CHUNK_SIZE |-> sol[j][1]]
                recoveredData2 == [j \in 1..CHUNK_SIZE |-> sol[j][2]]
                len1 == TrimmedLength(recoveredData1, CHUNK_SIZE)
                len2 == TrimmedLength(recoveredData2, CHUNK_SIZE)
            IN  IF len1 > 0 /\ len2 > 0
                THEN MapSet(MapSet(EmptyMap, missingIndices[1],
                                   SubSeq(recoveredData1, 1, len1)),
                            missingIndices[2], SubSeq(recoveredData2, 1, len2))
                ELSE EmptyMap
        ELSE IF /\ Len(missingIndices) = 3
                /\ scheme.parityCount >= 3
                /\ hasPrimary
                /\ hasSecondary
                /\ ParityHas(parity, tertiaryParityKey) THEN
            LET adjP == XorIntoParity(ParityGet(parity, primaryParityKey), presentChunks)
                adjS == XorWeightedIntoParity(ParityGet(parity, secondaryParityKey),
                                              presentChunks, presentWeights)
                adjT == XorWeightedIntoParity(ParityGet(parity, tertiaryParityKey),
                                              presentChunks, presentSquares)
                w21 == missingIndices[1] - groupStart + 1
                w22 == missingIndices[2] - groupStart + 1
                w23 == missingIndices[3] - groupStart + 1
                sol == [j \in 1..CHUNK_SIZE |-> SolveThree(adjP, adjS, adjT, w21, w22, w23, j)]
                r1 == [j \in 1..CHUNK_SIZE |-> sol[j][1]]
                r2 == [j \in 1..CHUNK_SIZE |-> sol[j][2]]
                r3 == [j \in 1..CHUNK_SIZE |-> sol[j][3]]
                len1 == TrimmedLength(r1, CHUNK_SIZE)
                len2 == TrimmedLength(r2, CHUNK_SIZE)
                len3 == TrimmedLength(r3, CHUNK_SIZE)
            IN  IF len1 > 0 /\ len2 > 0 /\ len3 > 0
                THEN MapSet(MapSet(MapSet(EmptyMap, missingIndices[1], SubSeq(r1, 1, len1)),
                                   missingIndices[2], SubSeq(r2, 1, len2)),
                            missingIndices[3], SubSeq(r3, 1, len3))
                ELSE EmptyMap
        ELSE EmptyMap

\* the keys recoverChunks looks up with parity.has for one group: primary and
\* secondary always, tertiary in the triple branch
RecoverLookups(groupStart, groupSize, scheme) ==
    IF scheme.parityCount = 0 THEN {}
    ELSE LET groupEnd == groupStart + groupSize - 1
         IN  {createParityKey(groupStart, groupEnd, "0"),
              createParityKey(groupStart, groupEnd, "1")}
             \cup (IF scheme.parityCount >= 3
                   THEN {createParityKey(groupStart, groupEnd, "2")} ELSE {})

(***************************************************************************)
(* State                                                                   *)
(***************************************************************************)
VARIABLES
    snd,              \* sid -> the sendLargeData call: arguments, pc, loop index
    inflight,         \* sid -> the frame whose transmitPacket is pending (<<>> if none)
    wire,             \* sid -> the frames whose transmission completed, in order
    progressLog,      \* sid -> the onProgress events of the sender, in order
    receiveSessions,  \* the receiver's Map sessionId -> session
    timers,           \* the armed setTimeout timers: id -> [sid, ms]
    nextTimerId,      \* the id the next setTimeout returns
    currentProtocol,  \* the receiver's this.currentProtocol ("" for null)
    instanceMode,     \* the receiver's ggwave instance as inferCurrentProtocol sees it
    awaiting,         \* completed sessions whose gunzip promise is pending
    delivered,        \* the messages passed to the text callback, in order
    channel,          \* sid -> "fifo" | "lossy" | "perm" | "open": what the channel does
    fed,              \* sid -> how often each frame of wire[sid] was fed
    withheld,         \* sid -> the indices of wire[sid] the channel withheld
    dups,             \* extra copies fed so far
    corrupts,         \* corrupted frames fed so far
    foreignFed,       \* the frames of other origin that were fed
    batches,          \* the batches handed to fileService.storeBatch, in order
    sendSessions,     \* the sender's Map sessionId -> session object (its index)
    sessionObjects,   \* the session objects the sender created, in order
    tasks,            \* the calls of sendLargeData, resendChunks, resendParity
    air,              \* the packets those calls transmitted, in order
    now,              \* the sender's clock, in seconds
    removals,         \* how many deletions and clearings of the store were made
    calc,             \* the last call of a static helper: its arguments and result
    lastEvent         \* what the last step did

vars == <<snd, inflight, wire, progressLog, receiveSessions, timers, nextTimerId,
          currentProtocol, instanceMode, awaiting, delivered, channel, fed, withheld, dups,
          corrupts, foreignFed, batches, sendSessions, sessionObjects, tasks, air, now,
          removals, calc, lastEvent>>

senderVars == <<snd, inflight, wire, progressLog>>

\* a step that is no completion of a session; the outcome of a step that
\* processed a frame is "hash_ok" or "hash_mismatch" when it completed a
\* session, "replaced" when a START took the place of an open session
Event(kind, sid, idx) ==
    [kind |-> kind, sid |-> sid, idx |-> idx, outcome |-> "none",
     fullData |-> <<>>, expectedHash |-> <<>>]
receiverVars == <<receiveSessions, timers, nextTimerId, awaiting, delivered, batches>>
\* the retained send sessions and the calls that work on them
storeVars == <<sendSessions, sessionObjects, tasks, air, now, removals>>
\* what every step of sender, channel and receiver above leaves alone
envVars == <<currentProtocol, instanceMode, storeVars, calc>>
\* what the calls on the retained send sessions leave alone
firstVars == <<snd, inflight, wire, progressLog, receiverVars, instanceMode, channel,
               fed, withheld, dups, corrupts, foreignFed, calc, lastEvent>>
\* what a call of a static helper leaves alone, with envVars
helperVars == <<snd, inflight, wire, progressLog, receiverVars, channel, fed, withheld,
                dups, corrupts, foreignFed, lastEvent>>

(***************************************************************************)
(* Sender: sendLargeData and transmitPacket                                *)
(***************************************************************************)
\* the values sendLargeData computes before its first packet
SendData(message, compress) ==
    IF compress THEN compressData(TextEncode(message)) ELSE TextEncode(message)

SendChunks(message, compress) == chunkBytes(SendData(message, compress), CHUNK_SIZE)

\* [flags, fecFlag].filter(Boolean).join(',')
AllFlags(compress, fecScheme) ==
    (IF compress THEN <<"C", ",">> ELSE <<>>) \o <<"F">> \o KeyChars[fecScheme.key]

StartPacket(id, message, compress, fecScheme) ==
    <<"S", id, "", md5Base64(SendData(message, compress)),
      Len(SendChunks(message, compress)), AllFlags(compress, fecScheme)>>

DataPacket(id, seqNum, chunk) == <<"D", id, seqNum, btoa(chunk)>>

\* the parities generated for one group of the plan
GroupParities(chunks, group, fecScheme) ==
    LET groupChunks == SubSeq(chunks, group.start, group.end)
        parityCount == IF StartsWithO(group.type) THEN 1
                       ELSE IF fecScheme.parityCount # 0 THEN fecScheme.parityCount
                       ELSE 1
    IN  generateParityData(groupChunks, [fecScheme EXCEPT !.parityCount = parityCount])

GroupParityIndex(group) ==
    IF StartsWithO(group.type) THEN 0 ELSE ParseIntType(group.type)

\* if (parityIndex < parities.length)
GroupEmits(chunks, group, fecScheme) ==
    GroupParityIndex(group) < Len(GroupParities(chunks, group, fecScheme))

ParityPacket(id, chunks, group, fecScheme) ==
    <<"P", id, createParityKey(group.start, group.end, group.type),
      btoa(GroupParities(chunks, group, fecScheme)[GroupParityIndex(group) + 1])>>

EndPacket(id) == <<"E", id, "", "">>

\* a parity loop that starts one group late
NextEmittingLate(g, fecGroups, chunks, fecScheme) == Min(g + 1, Len(fecGroups) + 1)

\* the first index >= g of a group of the plan that emits a packet, or
\* Len(fecGroups) + 1 when the loop runs out
RECURSIVE NextEmitting(_, _, _, _)
NextEmitting(g, fecGroups, chunks, fecScheme) ==
    IF g > Len(fecGroups) THEN g
    ELSE IF GroupEmits(chunks, fecGroups[g], fecScheme) THEN g
    ELSE NextEmitting(g + 1, fecGroups, chunks, fecScheme)

\* the plan the parity loop walks: nothing when groupSize is 0
SendPlan(total, fecScheme) ==
    IF fecScheme.groupSize > 0 THEN generateFECGroups(total, fecScheme) ELSE <<>>

\* where the call continues once the packet of phase pc, index i completed
AfterPacket(s, pc, i) ==
    LET chunks == SendChunks(s.message, s.compress)
        total == Len(chunks)
        fecGroups == SendPlan(total, s.fecScheme)
        firstParity == NextEmitting(1, fecGroups, chunks, s.fecScheme)
        afterData == IF firstParity <= Len(fecGroups)
                     THEN [pc |-> "parity", i |-> firstParity]
                     ELSE [pc |-> "end", i |-> 0]
    IN  CASE pc = "start" ->
                IF total >= 1 THEN [pc |-> "data", i |-> 1] ELSE afterData
          [] pc = "data" ->
                IF i < total THEN [pc |-> "data", i |-> i + 1] ELSE afterData
          [] pc = "parity" ->
                LET n == NextEmitting(i + 1, fecGroups, chunks, s.fecScheme)
                IN  IF n <= Len(fecGroups) THEN [pc |-> "parity", i |-> n]
                    ELSE [pc |-> "end", i |-> 0]
          [] pc = "end" -> [pc |-> "done", i |-> 0]

\* the packet of phase pc, index i and its progress event
PacketAt(id, s) ==
    LET chunks == SendChunks(s.message, s.compress)
        total == Len(chunks)
        fecGroups == SendPlan(total, s.fecScheme)
    IN  CASE s.pc = "start" ->
                [packet |-> StartPacket(id, s.message, s.compress, s.fecScheme),
                 type |-> "start", current |-> 0, total |-> total]
          [] s.pc = "data" ->
                [packet |-> DataPacket(id, s.i, chunks[s.i]),
                 type |-> "data", current |-> s.i, total |-> total]
          [] s.pc = "parity" ->
                [packet |-> ParityPacket(id, chunks, fecGroups[s.i], s.fecScheme),
                 type |-> "parity", current |-> s.i, total |-> Len(fecGroups)]
          [] s.pc = "end" ->
                [packet |-> EndPacket(id),
                 type |-> "end", current |-> total, total |-> total]

Sending(s) == s.pc \in {"start", "data", "parity", "end"}

\* onProgress?.(...) followed by the call of transmitPacket
sendLargeData(id) ==
    /\ Sending(snd[id])
    /\ inflight[id] = <<>>
    /\ LET ev == PacketAt(id, snd[id])
       IN  /\ progressLog' = [progressLog EXCEPT ![id] = Append(@, ev)]
           /\ inflight' = [inflight EXCEPT ![id] = <<ev.packet>>]
    /\ lastEvent' = Event("handover", id, 0)
    /\ UNCHANGED <<snd, wire, receiverVars, envVars, channel, fed, withheld,
                   dups, corrupts, foreignFed>>

\* transmitPacket resolves: the sound was played (and the extra delay passed)
transmitPacket(id) ==
    /\ inflight[id] # <<>>
    /\ wire' = [wire EXCEPT ![id] = Append(@, inflight[id][1])]
    /\ fed' = [fed EXCEPT ![id] = Append(@, 0)]
    /\ inflight' = [inflight EXCEPT ![id] = <<>>]
    /\ snd' = [snd EXCEPT ![id] =
                  [@ EXCEPT !.pc = AfterPacket(snd[id], snd[id].pc, snd[id].i).pc,
                            !.i = AfterPacket(snd[id], snd[id].pc, snd[id].i).i]]
    /\ lastEvent' = Event("transmitted", id, Len(wire[id]) + 1)
    /\ UNCHANGED <<progressLog, receiverVars, envVars, channel, withheld,
                   dups, corrupts, foreignFed>>

\* transmitPacket rejects (textToSound or playSound threw): the call fails
transmitPacketFails(id) ==
    /\ inflight[id] # <<>>
    /\ inflight' = [inflight EXCEPT ![id] = <<>>]
    /\ snd' = [snd EXCEPT ![id] = [@ EXCEPT !.pc = "failed"]]
    /\ lastEvent' = Event("failed", id, 0)
    /\ UNCHANGED <<wire, fed, progressLog, receiverVars, envVars, channel,
                   withheld, dups, corrupts, foreignFed>>

(***************************************************************************)
(* Receiver: handleReceivedPacket                                          *)
(***************************************************************************)
\* protocolName.includes('NORMAL') etc. on the protocol names of the library
ProtocolNames ==
    {"GGWAVE_PROTOCOL_AUDIBLE_NORMAL", "GGWAVE_PROTOCOL_AUDIBLE_FAST",
     "GGWAVE_PROTOCOL_AUDIBLE_FASTEST", "GGWAVE_PROTOCOL_DT_NORMAL", "NORMAL",
     "ULTRASONIC_FASTEST", "ULTRASONIC_NORMAL", "AUDIBLE_NORMAL"}
IncludesNORMAL(name) ==
    name \in {"GGWAVE_PROTOCOL_AUDIBLE_NORMAL", "GGWAVE_PROTOCOL_DT_NORMAL", "NORMAL",
              "ULTRASONIC_NORMAL", "AUDIBLE_NORMAL"}
IncludesFASTEST(name) ==
    name \in {"GGWAVE_PROTOCOL_AUDIBLE_FASTEST", "ULTRASONIC_FASTEST"}
IncludesFAST(name) ==
    name \in {"GGWAVE_PROTOCOL_AUDIBLE_FAST"} \/ IncludesFASTEST(name)

calculateTimeout(totalPackets, protocolName) ==
    LET multiplier ==
            IF protocolName = "" THEN 1
            ELSE IF IncludesNORMAL(protocolName) THEN 3
            ELSE IF IncludesFAST(protocolName) /\ ~IncludesFASTEST(protocolName) THEN 2
            ELSE 1
        calculatedTimeout ==
            SESSION_TIMEOUT_BASE_MS
            + (totalPackets * SESSION_TIMEOUT_PER_PACKET_MS * multiplier)
    IN  Max(calculatedTimeout, MIN_SESSION_TIMEOUT_MS)

\* instanceMode: "absent" when this.instance is falsy or the probe throws,
\* "low" for a default mode <= 1 (also when getDefaultMode is missing, which
\* reads as 0), "mid" for <= 3, "high" otherwise
InstanceModes == {"absent", "low", "mid", "high"}

inferCurrentProtocol(recorded, mode) ==
    IF recorded # "" THEN recorded
    ELSE IF mode = "low" THEN "ULTRASONIC_FASTEST"
    ELSE IF mode = "mid" THEN "ULTRASONIC_NORMAL"
    ELSE IF mode = "high" THEN "AUDIBLE_NORMAL"
    ELSE "NORMAL"

\* [A-Z_0-9]
FlagClass ==
    {"A","B","C","D","E","F","G","H","I","J","K","L","M","N","O","P","Q","R","S",
     "T","U","V","W","X","Y","Z","_","0","1","2","3","4","5","6","7","8","9"}

\* the end of the longest run of FlagClass characters that starts at k
RECURSIVE RunEnd(_, _)
RunEnd(flags, k) ==
    IF k + 1 <= Len(flags) /\ flags[k + 1] \in FlagClass THEN RunEnd(flags, k + 1) ELSE k

\* flags.match(/F([A-Z_0-9]+)/): <<capture>> for the leftmost match, <<>> for none
FecMatch(flags) ==
    LET starts == {i \in 1..(Len(flags) - 1) :
                      flags[i] = "F" /\ flags[i + 1] \in FlagClass}
    IN  IF starts = {} THEN <<>>
        ELSE LET i == CHOOSE x \in starts : \A y \in starts : x <= y
             IN  <<SubSeq(flags, i + 1, RunEnd(flags, i + 1))>>

\* the scheme a START announces
ParseFecScheme(flags) ==
    LET fecMatch == FecMatch(flags)
    IN  IF fecMatch = <<>> THEN DEFAULT_FEC_SCHEME
        ELSE IF \E k \in SchemeKeys : KeyChars[k] = fecMatch[1]
             THEN FEC_SCHEMES[CHOOSE k \in SchemeKeys : KeyChars[k] = fecMatch[1]]
             ELSE DEFAULT_FEC_SCHEME

\* sess.flags.includes('C')
HasCompressionFlag(flags) == \E i \in DOMAIN flags : flags[i] = "C"

\* parts.slice(from).join(':') of base-64 fields; ':' is no base-64 character
RECURSIVE JoinColon(_, _)
JoinColon(parts, from) ==
    IF from > Len(parts) THEN <<>>
    ELSE IF from = Len(parts) THEN parts[from]
    ELSE parts[from] \o <<B64_BAD>> \o JoinColon(parts, from + 1)

\* `${type}:${sessionId}:${parts[2] || ''}`
PacketId(parts) == <<parts[1], parts[2], IF Len(parts) >= 3 THEN parts[3] ELSE "">>

\* a clearTimeout that leaves the timer armed
clearTimeoutNoop(tm, id) == tm

\* clearTimeout(id): no effect when the timer is not armed
clearTimeout(tm, id) == MapDelete(tm, id)

Ret(kind, data) == [kind |-> kind, data |-> data]
RetNull == Ret("null", <<>>)

\* what a call leaves behind: the receiver state, the value returned (or the
\* pending gunzip) and the completion it recorded
Result(sessions, tm, nextId, ret, outcome, fullData, expectedHash) ==
    [sessions |-> sessions, timers |-> tm, nextTimerId |-> nextId, ret |-> ret,
     outcome |-> outcome, fullData |-> fullData, expectedHash |-> expectedHash]

Unfinished(sessions, tm, nextId) ==
    Result(sessions, tm, nextId, RetNull, "none", <<>>, <<>>)

(***************************************************************************)
(* The recovery passes run after every packet                              *)
(***************************************************************************)
\* for (g = 1; g <= totalGroups; g++) recoverChunks(..., startSeq, groupSize, ...)
RECURSIVE StandardPass(_, _, _)
StandardPass(chunks, sess, g) ==
    LET groupSize == sess.fecScheme.groupSize
        totalGroups == CeilDiv(sess.total, groupSize)
        startSeq == (g - 1) * groupSize + 1
        recovered == recoverChunks(chunks, sess.parity, startSeq, groupSize,
                                   sess.fecScheme)
    IN  IF g > totalGroups THEN chunks
        ELSE StandardPass(MapMerge(chunks, recovered), sess, g + 1)

\* the groups of generateOverlappingGroups whose type starts with 'O'
OverlappingOnlyGroups(total) ==
    SelectSeq(generateOverlappingGroups(total), LAMBDA g : StartsWithO(g.type))

\* if (!sess.chunks.has(seq)) sess.chunks.set(seq, data), for every recovered
MergeMissing(chunks, recovered) ==
    MapMerge(chunks, [i \in {x \in DOMAIN recovered : x \notin DOMAIN chunks} |->
                         recovered[i]])

RECURSIVE OverlappingPass(_, _, _, _)
OverlappingPass(chunks, sess, groups, k) ==
    IF k > Len(groups) THEN chunks
    ELSE
        LET group == groups[k]
            recovered == recoverChunks(chunks, sess.parity, group.start,
                                       group.end - group.start + 1,
                                       [sess.fecScheme EXCEPT !.parityCount = 1])
        IN  OverlappingPass(MergeMissing(chunks, recovered), sess, groups, k + 1)

\* every key the standard and the overlapping pass look up for a session of
\* the given total and scheme
PassLookups(total, scheme) ==
    IF scheme.groupSize > 0 THEN
        UNION {RecoverLookups((g - 1) * scheme.groupSize + 1, scheme.groupSize, scheme) :
                  g \in 1..CeilDiv(total, scheme.groupSize)}
        \cup (IF scheme.overlap
              THEN LET groups == OverlappingOnlyGroups(total)
                   IN  UNION {RecoverLookups(groups[k].start,
                                             groups[k].end - groups[k].start + 1,
                                             [scheme EXCEPT !.parityCount = 1]) :
                                 k \in DOMAIN groups}
              ELSE {})
    ELSE {}

\* attemptAggressiveRecovery: one walk over the parity map in insertion order
RECURSIVE AggressiveFrom(_, _, _)
AggressiveFrom(chunks, parity, k) ==
    IF k > Len(parity) THEN chunks
    ELSE
        LET sequenciaInfo == parseSequencia(parity[k].key)
            startSeq == sequenciaInfo.inicio
            endSeq == sequenciaInfo.fim
            missingInGroup == {i \in startSeq..endSeq : i \notin DOMAIN chunks}
            presentIndices == SortedSeq({i \in startSeq..endSeq : i \in DOMAIN chunks})
            present == [n \in DOMAIN presentIndices |-> chunks[presentIndices[n]]]
            recoveredData == XorIntoParity(parity[k].data, present)
            actualLength == TrimmedLength(recoveredData, Len(recoveredData))
            missingIndex == CHOOSE i \in missingInGroup : TRUE
        IN  IF /\ sequenciaInfo.isValid
               /\ Cardinality(missingInGroup) = 1
               /\ sequenciaInfo.tipo = "0"
               /\ actualLength > 0
            THEN AggressiveFrom(MapSet(chunks, missingIndex,
                                       SubSeq(recoveredData, 1, actualLength)),
                                parity, k + 1)
            ELSE AggressiveFrom(chunks, parity, k + 1)

attemptAggressiveRecovery(sess) == AggressiveFrom(sess.chunks, sess.parity, 1)

\* the block "Attempt FEC recovery using the configured scheme": the chunks
\* map it leaves behind
\* if (sess.fecScheme.overlap) { ... }: the second pass over the chunks so far
OverlapStep(sess, chunks) ==
    IF sess.fecScheme.overlap
    THEN OverlappingPass(chunks, sess, OverlappingOnlyGroups(sess.total), 1)
    ELSE chunks

\* if (sess.chunks.size < sess.total && sess.parity.size > 0): the last pass
AggressiveStep(sess, chunks) ==
    IF Cardinality(DOMAIN chunks) < sess.total /\ Len(sess.parity) > 0
    THEN attemptAggressiveRecovery([sess EXCEPT !.chunks = chunks])
    ELSE chunks

FECRecovery(sess) ==
    IF sess.fecScheme.groupSize > 0
    THEN AggressiveStep(sess, OverlapStep(sess, StandardPass(sess.chunks, sess, 1)))
    ELSE sess.chunks

\* the chunks in ascending seq order, concatenated
Reassemble(chunks) ==
    LET order == SortedSeq(DOMAIN chunks)
    IN  Concat([k \in DOMAIN order |-> chunks[order[k]]])

\* a hash comparison that lets every reassembled stream pass
HashMatchesAlways(fullData, expectedHash) == TRUE

\* if (hashCheck === sess.expectedHash)
HashMatches(fullData, expectedHash) == md5Base64(fullData) = expectedHash

\* what is returned for a reconstructed message: the text, or the fields of
\* a FILE: message, which go to handleFilePacket
ReturnMessage(fullMessage) ==
    IF StartsWithFILE(fullMessage) THEN Ret("file", Tail(SplitColon(fullMessage)))
    ELSE Ret("text", fullMessage)

\* a completed session that stays in the map while its message is processed
deleteSessionAfterAwait(sessions, sessionId) == sessions

\* this.receiveSessions.delete(sessionId), in the cleanup of a completed
\* session: it comes before the hash comparison and before every await
deleteSession(sessions, sessionId) == MapDelete(sessions, sessionId)

\* "Check if we have all chunks now (including recovered ones)": sess is the
\* session after the recovery passes
Completion(sessionId, sessions, tm, nextId, sess) ==
        LET fullData == Reassemble(sess.chunks)
        IN  IF Cardinality(DOMAIN sess.chunks) = sess.total THEN
                \* cleanup comes first: clearTimeout, delete
                IF HashMatches(fullData, sess.expectedHash) THEN
                    Result(deleteSession(sessions, sessionId),
                           clearTimeout(tm, sess.timeoutId), nextId,
                           IF HasCompressionFlag(sess.flags)
                           THEN Ret("gunzip", fullData)
                           ELSE ReturnMessage(TextDecode(fullData)),
                           "hash_ok", fullData, sess.expectedHash)
                ELSE
                    Result(deleteSession(sessions, sessionId),
                           clearTimeout(tm, sess.timeoutId), nextId, RetNull,
                           "hash_mismatch", fullData, sess.expectedHash)
            ELSE Unfinished(MapSet(sessions, sessionId, sess), tm, nextId)

\* "After any packet, attempt to finalize session if possible"
Finalize(sessionId, sessions, tm, nextId) ==
    IF sessionId \notin DOMAIN sessions THEN Unfinished(sessions, tm, nextId)
    ELSE Completion(sessionId, sessions, tm, nextId,
                    [sessions[sessionId] EXCEPT
                        !.chunks = FECRecovery(sessions[sessionId])])

(***************************************************************************)
(* The packet switch                                                       *)
(***************************************************************************)
\* a numeric field is NaN when parseInt fails; a negative number stands for it
IsNaNField(n) == n < 0

\* a session record that announces one chunk more than the START did
NewSessionOffByOne(total, expectedHash, flags, fecScheme, timeoutId, packetId) ==
    [total |-> total + 1, expectedHash |-> expectedHash, flags |-> flags,
     fecScheme |-> fecScheme, chunks |-> EmptyMap, parity |-> <<>>,
     timeoutId |-> timeoutId, receivedPackets |-> {packetId}]

NewSession(total, expectedHash, flags, fecScheme, timeoutId, packetId) ==
    [total |-> total, expectedHash |-> expectedHash, flags |-> flags,
     fecScheme |-> fecScheme, chunks |-> EmptyMap, parity |-> <<>>,
     timeoutId |-> timeoutId, receivedPackets |-> {packetId}]

\* a cleaning that forgets the timer of the session it discards
CleanPreviousKeepsTimer(sessionId, sessions, tm) ==
    [timers |-> tm, sessions |-> MapDelete(sessions, sessionId)]

\* "Clean previous if exists": the timers and the sessions after it
CleanPrevious(sessionId, sessions, tm) ==
    IF sessionId \in DOMAIN sessions
    THEN [timers |-> clearTimeout(tm, sessions[sessionId].timeoutId),
          sessions |-> MapDelete(sessions, sessionId)]
    ELSE [timers |-> tm, sessions |-> sessions]

\* how a case of the switch ends: break (on to the finalize block) or return
\* null, and the receiver state it leaves
Break(sessions, tm, nextId) ==
    [brk |-> TRUE, sessions |-> sessions, timers |-> tm, nextTimerId |-> nextId]
ReturnNull(sessions, tm, nextId) ==
    [brk |-> FALSE, sessions |-> sessions, timers |-> tm, nextTimerId |-> nextId]

\* setTimeout(callback, timeoutMs): the timer is armed under a fresh id
ArmTimer(tm, id, sessionId, timeoutMs) ==
    MapSet(tm, id, [sid |-> sessionId, ms |-> timeoutMs])

\* case 'S'
HandleStart(parts, sessions, tm, nextId, protocol) ==
    IF Len(parts) < 5 THEN ReturnNull(sessions, tm, nextId)
    ELSE
        LET sessionId == parts[2]
            expectedHash == parts[4]
            total == parts[5]
            flags == IF Len(parts) >= 6 THEN parts[6] ELSE <<>>
            fecScheme == ParseFecScheme(flags)
            cleaned == CleanPrevious(sessionId, sessions, tm)
            timeoutMs == calculateTimeout(total, protocol)
            armed == ArmTimer(cleaned.timers, nextId, sessionId, timeoutMs)
            sess == NewSession(total, expectedHash, flags, fecScheme, nextId,
                               PacketId(parts))
        IN  IF IsNaNField(total) \/ expectedHash = <<>>
            THEN ReturnNull(sessions, tm, nextId)
            ELSE Break(MapSet(cleaned.sessions, sessionId, sess),
                          armed, nextId + 1)

\* a duplicate check that lets every packet pass
IsDuplicateNever(sess, packetId) == FALSE

\* if (sess.receivedPackets.has(packetId)) ... break
IsDuplicate(sess, packetId) == packetId \in sess.receivedPackets

\* case 'D'
HandleData(parts, sessions, tm, nextId) ==
    IF Len(parts) < 4 THEN ReturnNull(sessions, tm, nextId)
    ELSE
        LET sessionId == parts[2]
            seqNum == parts[3]
            dataBase64 == JoinColon(parts, 4)
            packetId == PacketId(parts)
            sess == sessions[sessionId]
            marked == [sess EXCEPT !.receivedPackets = @ \cup {packetId}]
            dataBytes == validateAndDecodeBase64(dataBase64)
            stored == [marked EXCEPT !.chunks = MapSet(@, seqNum, dataBytes.bytes)]
        IN  IF IsNaNField(seqNum) THEN ReturnNull(sessions, tm, nextId)
            ELSE IF sessionId \notin DOMAIN sessions THEN ReturnNull(sessions, tm, nextId)
            ELSE IF IsDuplicate(sess, packetId)
                 THEN Break(sessions, tm, nextId)
            ELSE IF dataBytes.ok
                 THEN Break(MapSet(sessions, sessionId, stored), tm, nextId)
            ELSE ReturnNull(MapSet(sessions, sessionId, marked), tm, nextId)

\* case 'P'
HandleParity(parts, sessions, tm, nextId) ==
    IF Len(parts) < 4 THEN ReturnNull(sessions, tm, nextId)
    ELSE
        LET sessionId == parts[2]
            rangeStr == parts[3]
            parityBase64 == parts[4]
            packetId == PacketId(parts)
            sess == sessions[sessionId]
            marked == [sess EXCEPT !.receivedPackets = @ \cup {packetId}]
            parityBytes == validateAndDecodeBase64(parityBase64)
            stored == [marked EXCEPT !.parity =
                          ParitySet(@, normalizeSequencia(rangeStr), parityBytes.bytes)]
        IN  IF sessionId \notin DOMAIN sessions THEN ReturnNull(sessions, tm, nextId)
            ELSE IF IsDuplicate(sess, packetId)
                 THEN Break(sessions, tm, nextId)
            ELSE IF parityBytes.ok
                 THEN Break(MapSet(sessions, sessionId, stored), tm, nextId)
            ELSE ReturnNull(MapSet(sessions, sessionId, marked), tm, nextId)

\* an END that opens a session for its sid
HandleEndOpens(parts, sessions, tm, nextId) ==
    Break(MapSet(sessions, parts[2],
                 NewSession(1, <<>>, <<>>, DEFAULT_FEC_SCHEME, nextId, PacketId(parts))),
          tm, nextId)

\* case 'E'
HandleEnd(parts, sessions, tm, nextId) ==
    LET sessionId == parts[2]
        packetId == PacketId(parts)
        sess == sessions[sessionId]
        marked == [sess EXCEPT !.receivedPackets = @ \cup {packetId}]
    IN  IF sessionId \notin DOMAIN sessions THEN ReturnNull(sessions, tm, nextId)
        ELSE IF IsDuplicate(sess, packetId)
             THEN Break(sessions, tm, nextId)
        ELSE Break(MapSet(sessions, sessionId, marked), tm, nextId)

\* what follows the switch: the finalize block after a break
AfterSwitch(sessionId, sw) ==
    IF sw.brk THEN Finalize(sessionId, sw.sessions, sw.timers, sw.nextTimerId)
    ELSE Unfinished(sw.sessions, sw.timers, sw.nextTimerId)

\* the synchronous part of handleReceivedPacket(raw), raw given by its parts
handleReceivedPacket(parts, sessions, tm, nextId, protocol) ==
    IF Len(parts) < 2 THEN Unfinished(sessions, tm, nextId)
    ELSE IF parts[1] = "FILE"
         THEN Result(sessions, tm, nextId, Ret("file", Tail(parts)), "none", <<>>, <<>>)
    ELSE IF parts[1] \notin {"S", "D", "P", "E"}
         THEN Result(sessions, tm, nextId, Ret("text", RawText(parts)), "none", <<>>, <<>>)
    ELSE AfterSwitch(parts[2],
                     CASE parts[1] = "S" -> HandleStart(parts, sessions, tm, nextId, protocol)
                       [] parts[1] = "D" -> HandleData(parts, sessions, tm, nextId)
                       [] parts[1] = "P" -> HandleParity(parts, sessions, tm, nextId)
                       [] parts[1] = "E" -> HandleEnd(parts, sessions, tm, nextId))

\* the callback of startListening: if (complete) callback(complete)
TextCallback(log, complete) ==
    IF complete # <<>> THEN Append(log, complete) ELSE log

\* a timer callback that leaves the session in the map
TimeoutCallbackKeeps(sessions, sessionId) == sessions

\* the callback of setTimeout: this.receiveSessions.delete(sessionId)
TimeoutCallback(sessions, sessionId) == MapDelete(sessions, sessionId)

\* the continuation of a completed session after await decompressData: the
\* message that is returned (the catch branch decodes the raw bytes)
AfterGunzip(fullData) ==
    LET decompressed == decompressData(fullData)
    IN  IF decompressed.ok THEN ReturnMessage(TextDecode(decompressed.bytes))
        ELSE ReturnMessage(TextDecode(fullData))

(***************************************************************************)
(* Receiver steps                                                          *)
(***************************************************************************)
\* what the promise of handleReceivedPacket resolves to once the value ret is
\* returned: a text goes through as it is; the fields of a FILE: message go
\* through handleFilePacket, whose storeBatch may resolve or reject
FileOutcomes(ret) ==
    IF ret.kind = "file"
    THEN {handleFilePacket(ret.data, storeOk) : storeOk \in BOOLEAN}
    ELSE IF ret.kind = "text" THEN {[ret |-> ret.data, batch |-> <<>>]}
    ELSE {[ret |-> <<>>, batch |-> <<>>]}

\* one decoded frame goes through handleReceivedPacket and, when the promise
\* resolves at once, through the callback of startListening
Process(kind, sid, k, parts) ==
    \E r \in {handleReceivedPacket(parts, receiveSessions, timers, nextTimerId,
                                   inferCurrentProtocol(currentProtocol, instanceMode))} :
        /\ receiveSessions' = r.sessions
        /\ timers' = r.timers
        /\ nextTimerId' = r.nextTimerId
        /\ awaiting' = IF r.ret.kind = "gunzip"
                       THEN Append(awaiting, [sid |-> sid, fullData |-> r.ret.data])
                       ELSE awaiting
        /\ \E f \in FileOutcomes(r.ret) :
              /\ delivered' = TextCallback(delivered, f.ret)
              /\ batches' = batches \o f.batch
        /\ lastEvent' = [kind |-> kind, sid |-> sid, idx |-> k,
                         outcome |-> IF /\ r.outcome = "none"
                                        /\ r.nextTimerId # nextTimerId
                                        /\ sid \in DOMAIN receiveSessions
                                     THEN "replaced" ELSE r.outcome,
                         fullData |-> r.fullData,
                         expectedHash |-> r.expectedHash]

\* the first frame of wire[sid] that was neither fed nor withheld (0 if none)
NextIndex(sid) ==
    LET open == {k \in 1..Len(wire[sid]) : fed[sid][k] = 0 /\ k \notin withheld[sid]}
    IN  IF open = {} THEN 0 ELSE CHOOSE k \in open : \A j \in open : k <= j

\* in-order channel: the next frame arrives
FeedNext(sid) ==
    /\ channel[sid] \in {"fifo", "lossy"}
    /\ NextIndex(sid) # 0
    /\ Process("frame", sid, NextIndex(sid), wire[sid][NextIndex(sid)])
    /\ fed' = [fed EXCEPT ![sid][NextIndex(sid)] = 1]
    /\ UNCHANGED <<senderVars, envVars, channel, withheld, dups, corrupts, foreignFed>>

\* in-order lossy channel: the next frame, a DATA frame, is lost
Withhold(sid) ==
    /\ channel[sid] = "lossy"
    /\ NextIndex(sid) # 0
    /\ wire[sid][NextIndex(sid)][1] = "D"
    /\ Cardinality(withheld[sid]) < MaxWithheld
    /\ withheld' = [withheld EXCEPT ![sid] = @ \cup {NextIndex(sid)}]
    /\ lastEvent' = Event("withheld", sid, NextIndex(sid))
    /\ UNCHANGED <<senderVars, receiverVars, envVars, channel, fed, dups, corrupts, foreignFed>>

\* reordering channel: START first, then the DATA and PARITY frames once
\* each in any order, END last
FeedPermuted(sid) ==
    /\ channel[sid] = "perm"
    /\ \E k \in 1..Len(wire[sid]) :
          /\ fed[sid][k] = 0
          /\ k = 1 \/ fed[sid][1] = 1
          /\ wire[sid][k][1] = "E" => \A j \in 1..(k - 1) : fed[sid][j] = 1
          /\ Process("frame", sid, k, wire[sid][k])
          /\ fed' = [fed EXCEPT ![sid][k] = 1]
    /\ UNCHANGED <<senderVars, envVars, channel, withheld, dups, corrupts, foreignFed>>

\* open channel: any transmitted frame arrives, at any time; a frame that
\* arrived before arrives again only within the budget of copies
Receive(sid) ==
    /\ channel[sid] = "open"
    /\ \E k \in 1..Len(wire[sid]) :
          /\ fed[sid][k] = 0 \/ dups < MaxDup
          /\ dups' = IF fed[sid][k] = 0 THEN dups ELSE dups + 1
          /\ Process("frame", sid, k, wire[sid][k])
          /\ fed' = [fed EXCEPT ![sid][k] = @ + 1]
    /\ UNCHANGED <<senderVars, envVars, channel, withheld, corrupts, foreignFed>>

\* the payloads that differ from the given one in exactly one byte
OneByteOff(bytes) ==
    {c \in [DOMAIN bytes -> PayloadBytes] :
        Cardinality({j \in DOMAIN bytes : c[j] # bytes[j]}) = 1}

\* open channel: a DATA frame arrives with one payload byte changed
ReceiveCorrupted(sid) ==
    /\ channel[sid] = "open"
    /\ corrupts < MaxCorrupt
    /\ \E k \in 1..Len(wire[sid]) :
          /\ wire[sid][k][1] = "D"
          /\ \E bytes \in OneByteOff(atob(wire[sid][k][4])) :
                Process("corrupted", sid, k, [wire[sid][k] EXCEPT ![4] = btoa(bytes)])
    /\ corrupts' = corrupts + 1
    /\ UNCHANGED <<senderVars, envVars, channel, fed, withheld, dups, foreignFed>>

\* frames that are not frames of the send under way: DATA frames with a seq
\* outside 1..total, DATA and PARITY frames with a payload that is no
\* base-64 text, PARITY frames with a payload of another length than
\* CHUNK_SIZE or with an id without type or with start > end, a START that
\* announces another message, STARTs that are not valid, frames of a sid
\* that has no session, plain texts and FILE: texts
ForeignFrames ==
    << <<"D", "A", 0, btoa(<<65>>)>>,
       <<"D", "A", 9, btoa(<<65>>)>>,
       <<"D", "A", 1, <<16, B64_BAD, 16, 16>>>>,
       <<"D", "A", 2, <<16, 16, 16>>>>,
       <<"D", "A", 2, <<16, 16>>, <<16, 16>>>>,
       <<"P", "A", <<1, 2, "0">>, <<16, 16, B64_BAD, 16>>>>,
       <<"P", "A", <<1, 2, "1">>, <<16, 16, 16, 16, 16>>>>,
       <<"P", "A", <<1, 2, "0">>, btoa([j \in 1..(CHUNK_SIZE - 1) |-> 65])>>,
       <<"P", "A", <<1, 2, "1">>, btoa([j \in 1..(CHUNK_SIZE + 1) |-> 65])>>,
       <<"P", "A", <<1, 2>>, btoa([j \in 1..CHUNK_SIZE |-> 0])>>,
       <<"P", "A", <<2, 1>>, btoa([j \in 1..CHUNK_SIZE |-> 0])>>,
       <<"P", "A", <<0 - 1>>, btoa([j \in 1..CHUNK_SIZE |-> 0])>>,
       <<"S", "A", "", md5Base64(<<65>>), 1, <<"F", "N", "O", "N", "E">>>>,
       <<"S", "B", "", md5Base64(<<65>>), 0 - 1, <<"F", "N", "O", "N", "E">>>>,
       <<"S", "B", "", <<>>, 1, <<"F", "N", "O", "N", "E">>>>,
       <<"S", "B", "", md5Base64(<<65>>)>>,
       <<"D", "B", 1, btoa(<<65>>)>>,
       <<"P", "B", <<1, 2, "0">>, btoa([j \in 1..CHUNK_SIZE |-> 0])>>,
       <<"E", "B", "", "">>,
       <<"hi", <<65>>>>,
       <<"hello">>,
       <<"FILE", <<98>>, <<102>>, <<65, 65>>>>,
       <<"FILE", <<98>>, <<102>>, <<33>>>>,
       <<"FILE", <<98>>>> >>

\* the session id field of a packet ("-" for a text that is no packet)
ForeignSid(parts) ==
    IF Len(parts) >= 2 /\ parts[1] \in {"S", "D", "P", "E"} THEN parts[2] ELSE "-"

\* a frame of other origin arrives
ReceiveForeign(k) ==
    /\ k \notin foreignFed
    /\ Cardinality(foreignFed) < MaxForeign
    /\ Process("foreign", ForeignSid(ForeignFrames[k]), k, ForeignFrames[k])
    /\ foreignFed' = foreignFed \cup {k}
    /\ UNCHANGED <<senderVars, envVars, channel, fed, withheld, dups, corrupts>>

\* the gunzip promise of a completed session settles
GunzipDone ==
    /\ \E n \in 1..Len(awaiting) :
          \E f \in FileOutcomes(AfterGunzip(awaiting[n].fullData)) :
              /\ awaiting' = SubSeq(awaiting, 1, n - 1)
                             \o SubSeq(awaiting, n + 1, Len(awaiting))
              /\ delivered' = TextCallback(delivered, f.ret)
              /\ batches' = batches \o f.batch
              /\ lastEvent' = Event("gunzip", awaiting[n].sid, 0)
    /\ UNCHANGED <<senderVars, receiveSessions, timers, nextTimerId, envVars,
                   channel, fed, withheld, dups, corrupts, foreignFed>>

\* an armed timer expires
TimerFire(id) ==
    /\ id \in DOMAIN timers
    /\ timers' = MapDelete(timers, id)
    /\ receiveSessions' = TimeoutCallback(receiveSessions, timers[id].sid)
    /\ lastEvent' = Event("timer", timers[id].sid, id)
    /\ UNCHANGED <<senderVars, nextTimerId, awaiting, delivered, batches, envVars,
                   channel, fed, withheld, dups, corrupts, foreignFed>>

(***************************************************************************)
(* The service that retains its send sessions (second GGWaveService)       *)
(***************************************************************************)
\* the only entry of FEC_SCHEMES of this service, and a scheme object of the
\* caller's own without FEC
FOUNTAIN_XOR == [groupSize |-> 10, parityCount |-> 2, isFountain |-> TRUE]
NoFec == [groupSize |-> 0, parityCount |-> 0, isFountain |-> FALSE]

\* the calls of sendLargeData on the service that retains its sessions
StoreCall(message, protocolName, compress, fecScheme) ==
    [message |-> message, protocolName |-> protocolName, compress |-> compress,
     fecScheme |-> fecScheme]

StoreCalls ==
    {StoreCall(<<65, 66, 67>>, "GGWAVE_PROTOCOL_ULTRASONIC_FASTEST", FALSE, FOUNTAIN_XOR),
     StoreCall(<<68>>, "GGWAVE_PROTOCOL_AUDIBLE_NORMAL", FALSE, NoFec)}

\* the lists given to resendChunks and to resendParity
ChunkLists == {<<>>, <<1>>, <<2, 1>>, <<1, 1>>, <<3>>}
ParityLists == {<<>>, <<<<"F", 0>>>>}

\* `${timestamp}-${nonce}`: the second of the clock and the random nonce
generateSessionId(timestamp, nonce) == <<timestamp, nonce>>

Nonces == 0..(NonceCount - 1)
SessionIds == {generateSessionId(t, n) : t \in 0..MaxClock, n \in Nonces}

\* [flags, fecFlag].filter(Boolean).join(','): the key of the scheme in
\* FEC_SCHEMES, or FOUNTAIN_XOR when the scheme is not in the table
FountainFlags(compress) ==
    (IF compress THEN <<"C", ",">> ELSE <<>>)
    \o <<"F", "F", "O", "U", "N", "T", "A", "I", "N", "_", "X", "O", "R">>

\* generateFECGroups: Math.ceil(totalPackets * 1.20) - totalPackets symbols
\* F0, F1, ... over the whole message
FountainGroups(totalPackets, fecScheme) ==
    IF fecScheme.groupSize = 0 THEN <<>>
    ELSE [n \in 1..(CeilDiv(totalPackets * 6, 5) - totalPackets) |->
             [start |-> 1, end |-> totalPackets, type |-> <<"F", n - 1>>]]

\* generateParityData: one symbol, the XOR of the first degree chunks
\* (degree is Math.floor(Math.random() * 3) + 1, at most chunks.length)
FountainParities(chunks, scheme, degree) ==
    IF scheme.parityCount = 0 \/ ~scheme.isFountain THEN <<>>
    ELSE <<xorBytes(SubSeq(chunks, 1, Min(Len(chunks), degree)), CHUNK_SIZE)>>

\* group.type.startsWith('O') ? 0 : parseInt(group.type); parseInt of "F<n>"
\* is NaN
FountainParityIndex(group) == IF group.type[1] = "O" THEN 0 ELSE 0 - 1

\* if (parityIndex < parities.length): false when parityIndex is NaN
FountainEmits(chunks, group, fecScheme, degree) ==
    /\ ~IsNaN(FountainParityIndex(group))
    /\ FountainParityIndex(group) < Len(FountainParities(chunks, fecScheme, degree))

\* the groups of the plan whose parity is stored and sent, in plan order
FountainEmitting(chunks, fecScheme, degree) ==
    SelectSeq(FountainGroups(Len(chunks), fecScheme),
              LAMBDA g : FountainEmits(chunks, g, fecScheme, degree))

\* parityMap.set(rangeStr, parities[parityIndex])
StoredParity(chunks, fecScheme, degree) ==
    LET groups == FountainEmitting(chunks, fecScheme, degree)
    IN  [key \in {groups[g].type : g \in DOMAIN groups} |->
            FountainParities(chunks, fecScheme, degree)[1]]

\* the record sendLargeData puts into this.sendSessions
NewSendSession(id, chunks, parity, protocolName, fecScheme, fullHash, flags, createdAt) ==
    [sessionId |-> id, chunks |-> chunks, parity |-> parity, total |-> Len(chunks),
     sentChunks |-> {}, sentParity |-> {}, protocolName |-> protocolName,
     fecScheme |-> fecScheme, fullHash |-> fullHash, flags |-> flags,
     createdAt |-> createdAt]

\* the packets of one sendLargeData call, in the order of its loops
StoredFrames(id, c, degree) ==
    LET data == SendData(c.message, c.compress)
        chunks == chunkBytes(data, CHUNK_SIZE)
        groups == IF c.fecScheme.groupSize > 0
                  THEN FountainEmitting(chunks, c.fecScheme, degree) ELSE <<>>
    IN  <<<<"S", id, "", md5Base64(data), Len(chunks), FountainFlags(c.compress)>>>>
        \o [seq \in 1..Len(chunks) |-> DataPacket(id, seq, chunks[seq])]
        \o [g \in 1..Len(groups) |->
               <<"P", id, groups[g].type,
                 btoa(FountainParities(chunks, c.fecScheme, degree)[1])>>]
        \o <<EndPacket(id)>>

\* a call of sendLargeData, resendChunks or resendParity under way: the
\* packets it has still to hand to transmitPacket and the session object it
\* holds (0 for undefined); list is the list a resend was called with
Task(op, sid, obj, list, frames, protocolName) ==
    [op |-> op, pc |-> IF frames = <<>> THEN "returned" ELSE "tx", error |-> "",
     sid |-> sid, obj |-> obj, list |-> list, frames |-> frames, i |-> 1,
     proto |-> protocolName]

\* throw new Error(`Send session ${sessionId} not found`)
NotFound(op, sid, list) ==
    [op |-> op, pc |-> "failed", error |-> "not_found", sid |-> sid, obj |-> 0,
     list |-> list, frames |-> <<>>, i |-> 1, proto |-> ""]

\* sendLargeData up to its first await: the id, the chunks, the stored
\* session and the START packet handed to transmitPacket (the calls are made
\* without compression and without a progress callback, so nothing is
\* awaited between the id and the START packet)
sendLargeDataStored ==
    /\ Len(tasks) < MaxCalls
    /\ \E c \in StoreCalls, nonce \in Nonces, degree \in 1..3 :
          LET id == generateSessionId(now, nonce)
              data == SendData(c.message, c.compress)
              chunks == chunkBytes(data, CHUNK_SIZE)
          IN  /\ sessionObjects' =
                    Append(sessionObjects,
                           NewSendSession(id, chunks,
                                          StoredParity(chunks, c.fecScheme, degree),
                                          c.protocolName, c.fecScheme, md5Base64(data),
                                          FountainFlags(c.compress), now))
              /\ sendSessions' = MapSet(sendSessions, id, Len(sessionObjects) + 1)
              /\ tasks' = Append(tasks, Task("send", id, 0, <<>>, StoredFrames(id, c, degree),
                                             c.protocolName))
              /\ currentProtocol' = c.protocolName
    /\ UNCHANGED <<air, now, removals, firstVars>>

\* the packets a resend hands to transmitPacket: one per element of the list
\* that the map of the session has (the others are skipped with a warning)
ResendFrames(type, sid, held, list) ==
    LET there == SelectSeq(list, LAMBDA x : x \in DOMAIN held)
    IN  [n \in 1..Len(there) |-> <<type, sid, there[n], btoa(held[there[n]])>>]

\* a resend that transmits nothing for a session that is not retained
resendStartSilent(op, sid, store, objects, list) == Task(op, sid, 0, list, <<>>, "")

\* resendChunks / resendParity up to the first await
resendStart(op, sid, store, objects, list) ==
    IF sid \notin DOMAIN store THEN NotFound(op, sid, list)
    ELSE LET session == objects[store[sid]]
         IN  Task(op, sid, store[sid], list,
                  IF op = "chunks" THEN ResendFrames("D", sid, session.chunks, list)
                  ELSE ResendFrames("P", sid, session.parity, list),
                  session.protocolName)

resendChunks ==
    /\ Len(tasks) < MaxCalls
    /\ \E sessionId \in SessionIds, chunkNumbers \in ChunkLists :
          tasks' = Append(tasks, resendStart("chunks", sessionId, sendSessions,
                                             sessionObjects, chunkNumbers))
    /\ UNCHANGED <<sendSessions, sessionObjects, air, now, removals, currentProtocol,
                   firstVars>>

resendParity ==
    /\ Len(tasks) < MaxCalls
    /\ \E sessionId \in SessionIds, parityKeys \in ParityLists :
          tasks' = Append(tasks, resendStart("parity", sessionId, sendSessions,
                                             sessionObjects, parityKeys))
    /\ UNCHANGED <<sendSessions, sessionObjects, air, now, removals, currentProtocol,
                   firstVars>>

\* "Mark chunk as sent" / "Update sent tracking": what the call does to the
\* session object it holds once the packet was transmitted
MarkSent(objects, obj, packet) ==
    IF obj = 0 THEN objects
    ELSE IF packet[1] = "D"
    THEN [objects EXCEPT ![obj].sentChunks = @ \cup {packet[3]}]
    ELSE IF packet[1] = "P"
    THEN [objects EXCEPT ![obj].sentParity = @ \cup {packet[3]}]
    ELSE objects

\* const sendSession = this.sendSessions.get(id), after the START packet
HeldAfter(task, packet, store) ==
    IF task.op = "send" /\ packet[1] = "S"
    THEN IF task.sid \in DOMAIN store THEN store[task.sid] ELSE 0
    ELSE task.obj

\* transmitPacket of call t resolves: the packet is on the air, the call
\* marks it and goes on to its next packet or returns
transmitStored(t) ==
    /\ tasks[t].pc = "tx"
    /\ LET task == tasks[t]
           packet == task.frames[task.i]
           obj == HeldAfter(task, packet, sendSessions)
       IN  /\ air' = Append(air, [task |-> t, packet |-> packet, proto |-> task.proto])
           /\ sessionObjects' = MarkSent(sessionObjects, obj, packet)
           /\ tasks' = [tasks EXCEPT ![t] =
                           [task EXCEPT !.obj = obj,
                                        !.i = task.i + 1,
                                        !.pc = IF task.i = Len(task.frames)
                                               THEN "returned" ELSE "tx"]]
    /\ UNCHANGED <<sendSessions, now, removals, currentProtocol, firstVars>>

\* await this.transmitPacket(...) throws: the call ends with that error
transmitStoredThrows(task) == [task EXCEPT !.pc = "failed", !.error = "transmit"]

\* transmitPacket of call t rejects (textToSound or playSound threw)
transmitStoredFails(t) ==
    /\ tasks[t].pc = "tx"
    /\ tasks' = [tasks EXCEPT ![t] = transmitStoredThrows(tasks[t])]
    /\ UNCHANGED <<sendSessions, sessionObjects, air, now, removals, currentProtocol,
                   firstVars>>

\* this.sendSessions.delete(sessionId)
deleteSendSession(sessionId) ==
    /\ removals < MaxRemovals
    /\ sendSessions' = MapDelete(sendSessions, sessionId)
    /\ removals' = removals + 1
    /\ UNCHANGED <<sessionObjects, tasks, air, now, currentProtocol, firstVars>>

\* this.sendSessions.clear()
clearAllSendSessions ==
    /\ removals < MaxRemovals
    /\ sendSessions' = EmptyMap
    /\ removals' = removals + 1
    /\ UNCHANGED <<sessionObjects, tasks, air, now, currentProtocol, firstVars>>

\* clearOldSendSessions: the sessions older than maxAge are deleted (the
\* clock of the model counts seconds, and so does maxAge)
clearOldSendSessions(maxAge) ==
    /\ removals < MaxRemovals
    /\ sendSessions' =
          [id \in {x \in DOMAIN sendSessions :
                      now - sessionObjects[sendSessions[x]].createdAt <= maxAge} |->
              sendSessions[id]]
    /\ removals' = removals + 1
    /\ UNCHANGED <<sessionObjects, tasks, air, now, currentProtocol, firstVars>>

\* a second passes
Tick ==
    /\ now < MaxClock
    /\ now' = now + 1
    /\ UNCHANGED <<sendSessions, sessionObjects, tasks, air, removals, currentProtocol,
                   firstVars>>

(***************************************************************************)
(* Initial states and specifications                                       *)
(***************************************************************************)
Messages == SeqsUpTo(PayloadBytes, MaxMsgLen)

Call(message, compress, fecScheme) ==
    [pc |-> "start", i |-> 0, message |-> message, compress |-> compress,
     fecScheme |-> fecScheme]

NoCall == [pc |-> "off", i |-> 0, message |-> <<>>, compress |-> FALSE,
           fecScheme |-> FEC_SCHEMES.NONE]

AllCalls == {Call(m, c, f) : m \in Messages, c \in BOOLEAN, f \in Schemes}

\* the calls of the reordering channel: messages of full length
LongCalls == {c \in AllCalls : Len(c.message) = MaxMsgLen /\ ~c.compress}

\* the calls of the open channel: the empty message and the messages of full
\* length with the last byte zero or not
OpenCalls ==
    {c \in AllCalls : /\ ~c.compress
                      /\ Len(c.message) \in {0, MaxMsgLen}
                      /\ \A j \in 1..(Len(c.message) - 1) : c.message[j] = 65}

\* the calls of two concurrent senders
PairCalls ==
    {c \in AllCalls : /\ c.message \in {<<>>, [j \in 1..(CHUNK_SIZE + 1) |-> 65]}
                      /\ c.fecScheme.key = "BASIC_2"}

\* no static helper was called yet
NoCalc == [op |-> "none", args |-> <<>>, out |-> <<>>]

\* everything but the protocol this service recorded in its last send
InitBase ==
    /\ inflight = [s \in SIDS |-> <<>>]
    /\ wire = [s \in SIDS |-> <<>>]
    /\ progressLog = [s \in SIDS |-> <<>>]
    /\ receiveSessions = EmptyMap
    /\ timers = EmptyMap
    /\ nextTimerId = 1
    /\ awaiting = <<>>
    /\ delivered = <<>>
    /\ fed = [s \in SIDS |-> <<>>]
    /\ withheld = [s \in SIDS |-> {}]
    /\ dups = 0
    /\ corrupts = 0
    /\ foreignFed = {}
    /\ batches = <<>>
    /\ sendSessions = EmptyMap
    /\ sessionObjects = <<>>
    /\ tasks = <<>>
    /\ air = <<>>
    /\ now = 0
    /\ removals = 0
    /\ calc = NoCalc
    /\ lastEvent = Event("init", "A", 0)

\* a service that sent nothing yet: this.currentProtocol is null
InitCommon ==
    /\ InitBase
    /\ currentProtocol = ""

\* one sender, every frame may arrive in any order, repeated or corrupted
Init ==
    /\ InitCommon
    /\ instanceMode \in {"absent", "low"}
    /\ \E c \in OpenCalls : snd = [s \in SIDS |-> IF s = "A" THEN c ELSE NoCall]
    /\ channel = [s \in SIDS |-> "open"]

Next ==
    \/ \E id \in SIDS : sendLargeData(id)
    \/ \E id \in SIDS : transmitPacket(id)
    \/ \E id \in SIDS : Receive(id)
    \/ \E id \in SIDS : ReceiveCorrupted(id)
    \/ GunzipDone
    \/ \E id \in DOMAIN timers : TimerFire(id)

Spec == Init /\ [][Next]_vars

\* the event loop runs every timer that stays armed
TimerIds == 1..(MaxDup + 1)
SpecLive == Spec /\ \A id \in TimerIds : WF_vars(TimerFire(id))

\* the sender alone
InitSender ==
    /\ InitCommon
    /\ instanceMode = "low"
    /\ \E c \in AllCalls : snd = [s \in SIDS |-> IF s = "A" THEN c ELSE NoCall]
    /\ channel = [s \in SIDS |-> "fifo"]

NextSender ==
    \/ \E id \in SIDS : sendLargeData(id)
    \/ \E id \in SIDS : transmitPacket(id)
    \/ \E id \in SIDS : transmitPacketFails(id)

SpecSender == InitSender /\ [][NextSender]_vars

\* the scenarios of the round-trip properties: one sender over an in-order
\* channel that may lose DATA frames, one sender over a reordering channel,
\* two senders over in-order channels
InitScenario ==
    /\ InitCommon
    /\ instanceMode = "low"
    /\ \/ /\ \E c \in AllCalls : snd = [s \in SIDS |-> IF s = "A" THEN c ELSE NoCall]
          /\ channel = [s \in SIDS |-> "lossy"]
       \/ /\ \E c \in LongCalls : snd = [s \in SIDS |-> IF s = "A" THEN c ELSE NoCall]
          /\ channel = [s \in SIDS |-> "perm"]
       \/ /\ \E ca \in PairCalls, cb \in {c \in PairCalls : ~c.compress} :
                snd = [s \in SIDS |-> IF s = "A" THEN ca ELSE cb]
          /\ channel = [s \in SIDS |-> "fifo"]

NextScenario ==
    \/ \E id \in SIDS : sendLargeData(id)
    \/ \E id \in SIDS : transmitPacket(id)
    \/ \E id \in SIDS : FeedNext(id)
    \/ \E id \in SIDS : Withhold(id)
    \/ \E id \in SIDS : FeedPermuted(id)
    \/ GunzipDone

SpecScenario == InitScenario /\ [][NextScenario]_vars

\* the calls of the overlapping schemes: texts of four and of five chunks
OverlapCalls ==
    {Call([j \in 1..(n * CHUNK_SIZE) |-> 64 + j], FALSE, f) :
        n \in {4, 5},
        f \in {FEC_SCHEMES.OVERLAPPING_3, FEC_SCHEMES.STRONG_OVERLAPPING_3}}

\* one sender under an overlapping scheme over an in-order channel that may
\* lose DATA frames
InitOverlap ==
    /\ InitCommon
    /\ instanceMode = "low"
    /\ \E c \in OverlapCalls : snd = [s \in SIDS |-> IF s = "A" THEN c ELSE NoCall]
    /\ channel = [s \in SIDS |-> "lossy"]

NextOverlap ==
    \/ \E id \in SIDS : sendLargeData(id)
    \/ \E id \in SIDS : transmitPacket(id)
    \/ \E id \in SIDS : FeedNext(id)
    \/ \E id \in SIDS : Withhold(id)

SpecOverlap == InitOverlap /\ [][NextOverlap]_vars

\* calls of sendLargeData, resendChunks and resendParity at any time, with
\* deletions and clearings of the store in between
InitStore ==
    /\ InitCommon
    /\ instanceMode = "low"
    /\ snd = [s \in SIDS |-> NoCall]
    /\ channel = [s \in SIDS |-> "fifo"]

NextStore ==
    \/ sendLargeDataStored
    \/ resendChunks
    \/ resendParity
    \/ \E t \in DOMAIN tasks : transmitStored(t)
    \/ \E t \in DOMAIN tasks : transmitStoredFails(t)
    \/ \E sessionId \in SessionIds : deleteSendSession(sessionId)
    \/ clearAllSendSessions
    \/ \E maxAge \in 0..MaxClock : clearOldSendSessions(maxAge)
    \/ Tick

SpecStore == InitStore /\ [][NextStore]_vars

\* the calls of the sender whose frames mix with frames of other origin: a
\* text in two chunks with parity, a compressed text, and FILE: texts with
\* a payload atob takes, a payload it refuses, and with too few fields
ForeignCalls ==
    {Call([j \in 1..(2 * CHUNK_SIZE) |-> 65], FALSE, FEC_SCHEMES.BASIC_2),
     Call(<<65>>, TRUE, FEC_SCHEMES.NONE),
     Call(FILE_PREFIX \o <<58, 58, 65, 65>>, FALSE, FEC_SCHEMES.NONE),
     Call(FILE_PREFIX \o <<58, 58, 33>>, FALSE, FEC_SCHEMES.NONE),
     Call(FILE_PREFIX, FALSE, FEC_SCHEMES.NONE)}

\* one sender over an in-order channel, and a receiver that also hears
\* frames of other origin and whose timers may expire
InitForeign ==
    /\ InitCommon
    /\ instanceMode = "low"
    /\ \E c \in ForeignCalls : snd = [s \in SIDS |-> IF s = "A" THEN c ELSE NoCall]
    /\ channel = [s \in SIDS |-> "fifo"]

NextForeign ==
    \/ \E id \in SIDS : sendLargeData(id)
    \/ \E id \in SIDS : transmitPacket(id)
    \/ \E id \in SIDS : FeedNext(id)
    \/ \E k \in DOMAIN ForeignFrames : ReceiveForeign(k)
    \/ GunzipDone
    \/ \E id \in DOMAIN timers : TimerFire(id)

SpecForeign == InitForeign /\ [][NextForeign]_vars

(***************************************************************************)
(* A receiver that hears STARTs of any flags and totals                    *)
(***************************************************************************)
\* the flags fields heard: none, the fields a sender writes, tokens that
\* name no scheme, two F tokens, and tokens that hold an F inside or a
\* scheme name followed by other characters
StartFlags ==
    << <<>>,
       <<"F">> \o KeyChars.NONE,
       <<"C", ",", "F">> \o KeyChars.BASIC_2,
       <<"F">> \o KeyChars.BASIC_4,
       <<"F">> \o KeyChars.OVERLAPPING_3,
       <<"F">> \o KeyChars.STRONG_OVERLAPPING_3,
       <<"C">>,
       <<"F", "X", "Y", "Z">>,
       <<"F", "X", "Y", "Z", ",", "F">> \o KeyChars.NONE,
       <<"F">> \o KeyChars.NONE \o <<",", "F">> \o KeyChars.BASIC_2,
       <<"F">>,
       <<"X", "F">> \o KeyChars.NONE,
       <<"F">> \o KeyChars.BASIC_2 \o <<"x">> >>

\* the chunk counts heard
StartTotals == <<1, 2, 6, 7>>

\* every flags field with one chunk, every chunk count with FNONE
StartFrames ==
    [f \in 1..Len(StartFlags) |->
        <<"S", "A", "", md5Base64(<<65>>), 1, StartFlags[f]>>]
    \o [t \in 1..Len(StartTotals) |->
        <<"S", "A", "", md5Base64(<<65>>), StartTotals[t], StartFlags[2]>>]

\* the protocol of the receiver's last send: none, a name of the library,
\* or a name that carries no speed tag
RecordedProtocols == ProtocolNames \cup {"", "CUSTOM"}

\* a START arrives for sid
ReceiveStart(sid, k) ==
    /\ nextTimerId <= MaxStarts
    /\ Process("start", sid, k, [StartFrames[k] EXCEPT ![2] = sid])
    /\ UNCHANGED <<senderVars, envVars, channel, fed, withheld, dups, corrupts,
                   foreignFed>>

InitStart ==
    /\ InitBase
    /\ currentProtocol \in RecordedProtocols
    /\ instanceMode \in InstanceModes
    /\ currentProtocol # "" => instanceMode = "low"
    /\ snd = [s \in SIDS |-> NoCall]
    /\ channel = [s \in SIDS |-> "fifo"]

NextStart ==
    \/ \E sid \in SIDS : \E k \in DOMAIN StartFrames : ReceiveStart(sid, k)
    \/ \E id \in DOMAIN timers : TimerFire(id)

SpecStart == InitStart /\ [][NextStart]_vars

(***************************************************************************)
(* A receiver whose channel reorders, repeats and garbles                  *)
(***************************************************************************)
\* reordering channel: a DATA frame arrives with a character outside the
\* base-64 alphabet in its payload, before or after the frame itself
ReceiveMalformed(sid) ==
    /\ channel[sid] = "perm"
    /\ corrupts < MaxCorrupt
    /\ \E k \in 1..Len(wire[sid]) :
          /\ wire[sid][k][1] = "D"
          /\ Process("malformed", sid, k,
                     [wire[sid][k] EXCEPT ![4] = [@ EXCEPT ![1] = B64_BAD]])
    /\ corrupts' = corrupts + 1
    /\ UNCHANGED <<senderVars, envVars, channel, fed, withheld, dups, foreignFed>>

\* texts of three and four chunks whose first chunk ends in a zero byte,
\* uncompressed, with a group scheme and with the overlapping scheme
RepairCalls ==
    {Call(<<65, 0>> \o [j \in 1..(CHUNK_SIZE + 1) |-> 65], FALSE, FEC_SCHEMES.BASIC_2),
     Call(<<65, 0>> \o [j \in 1..(2 * CHUNK_SIZE + 1) |-> 65], FALSE,
          FEC_SCHEMES.OVERLAPPING_3)}

InitRepair ==
    /\ InitCommon
    /\ instanceMode = "low"
    /\ \E c \in RepairCalls : snd = [s \in SIDS |-> IF s = "A" THEN c ELSE NoCall]
    /\ channel = [s \in SIDS |-> "perm"]

NextRepair ==
    \/ \E id \in SIDS : sendLargeData(id)
    \/ \E id \in SIDS : transmitPacket(id)
    \/ \E id \in SIDS : FeedPermuted(id)
    \/ \E id \in SIDS : ReceiveMalformed(id)

SpecRepair == InitRepair /\ [][NextRepair]_vars

(***************************************************************************)
(* The static helpers, called on their own                                 *)
(***************************************************************************)
\* a call of a static helper and what it returned
Called(op, args, out) == [op |-> op, args |-> args, out |-> out]

\* the helpers are static and keep nothing: one call shows what a helper does
\* generateOverlappingGroups(totalPackets)
callOverlappingGroups(totalPackets) ==
    /\ calc = NoCalc
    /\ calc' = Called("generateOverlappingGroups", <<totalPackets>>,
                      generateOverlappingGroups(totalPackets))
    /\ UNCHANGED <<helperVars, currentProtocol, instanceMode, storeVars>>

\* the packets of sendLargeData as strings: their lengths in characters
\* n.toString().length for n >= 0
RECURSIVE Digits(_)
Digits(n) == IF n < 10 THEN 1 ELSE 1 + Digits(n \div 10)

\* btoa(...).length for n bytes
B64Length(n) == 4 * CeilDiv(n, 3)

\* `${timestamp}-${nonce}`.length, the nonce padded to six digits
SessionIdLength(timestamp) == Digits(timestamp) + 1 + 6

\* type.length for "0", "1", "2" (written <<"0">>, ...) and for `O${oIndex}`
\* (written <<"O", oIndex>>)
TypeLength(type) == IF Len(type) = 1 THEN 1 ELSE 1 + Digits(type[2])

\* `S:${id}::${fullHash}:${total}:${allFlags}`.length
StartPacketLength(idLength, total, compress, fecScheme) ==
    2 + idLength + 2 + B64Length(16) + 1 + Digits(total) + 1
    + Len(AllFlags(compress, fecScheme))

\* `D:${id}:${seqNum}:${chunkBase64}`.length
DataPacketLength(idLength, seqNum, chunkLength) ==
    2 + idLength + 1 + Digits(seqNum) + 1 + B64Length(chunkLength)

\* `P:${id}:${rangeStr}:${parityBase64}`.length, rangeStr being
\* `${start}-${end}-${type}` and the parity having CHUNK_SIZE bytes
ParityPacketLength(idLength, group) ==
    2 + idLength + 1
    + (Digits(group.start) + 1 + Digits(group.end) + 1 + TypeLength(group.type))
    + 1 + B64Length(CHUNK_SIZE_BYTES)

\* `E:${id}::`.length
EndPacketLength(idLength) == 2 + idLength + 2

\* the groups of the plan for totalPackets that start at chunk n: what the
\* loops of generateOverlappingGroups and generateFECGroups push in the
\* iteration that reaches n (the second loop of generateOverlappingGroups
\* reaches i with oIndex = i - 2)
GroupsStartingAt(n, totalPackets, fecScheme) ==
    IF fecScheme.groupSize = 0 THEN {}
    ELSE IF fecScheme.overlap
    THEN IF n % 3 = 1
         THEN {[start |-> n, end |-> Min(n + 2, totalPackets), type |-> <<"0">>]}
         ELSE IF n >= 2 /\ n + 2 <= totalPackets
         THEN {[start |-> n, end |-> n + 2, type |-> <<"O", n - 2>>]}
         ELSE {}
    ELSE IF (n - 1) % fecScheme.groupSize = 0
    THEN {[start |-> n, end |-> Min(n - 1 + fecScheme.groupSize, totalPackets),
           type |-> <<DigitStr[p]>>] : p \in 1..fecScheme.parityCount}
    ELSE {}

\* the chunk counts and the positions in a plan the lengths are computed for
LengthTotals == {1, 2, 3, 9, 10, 99, 100, 9999, 10000, 99999, 100000, 100002,
                 100003, 999999, 1000000, 9999999}
LengthPositions(totalPackets) ==
    {n \in {1, 2, 3, 4, 7, 8, 9, 10, 97, 99998, 99999, 100000, 100001, 999997,
            999998, 1000000, 9999995, 9999996, 9999997, 9999998, 9999999} :
        n <= totalPackets}

\* Math.floor(Date.now() / 1000) in 2001, 2025 and 2038
Timestamps == {1000000000, 1762214400, 2147483647}

\* the lengths of the packets sendLargeData writes for a payload of
\* totalPackets chunks: START, the DATA packet of chunk n, the PARITY packets
\* of the groups that start at n, END
callPacketLengths(timestamp, totalPackets, n, compress, fecScheme) ==
    /\ calc = NoCalc
    /\ calc' = Called("sendLargeData",
                      <<timestamp, totalPackets, n, compress, fecScheme.key>>,
                      LET idLength == SessionIdLength(timestamp)
                      IN  [S |-> StartPacketLength(idLength, totalPackets, compress,
                                                   fecScheme),
                           D |-> DataPacketLength(idLength, n, CHUNK_SIZE_BYTES),
                           P |-> {ParityPacketLength(idLength, g) :
                                     g \in GroupsStartingAt(n, totalPackets, fecScheme)},
                           E |-> EndPacketLength(idLength)])
    /\ UNCHANGED <<helperVars, currentProtocol, instanceMode, storeVars>>

\* the bytes of the chunks recoverChunks is called on, the chunks (of one
\* byte and of CHUNK_SIZE bytes) and the groups of one to three chunks
SolverBytes == {0, 1, 255}
SolverChunks == UNION {[1..n -> SolverBytes] : n \in {1, CHUNK_SIZE}}
SolverGroups == UNION {[1..n -> SolverChunks] : n \in 1..3}

\* the parity map of a receiver that holds every parity generateParityData
\* makes for the group
HeldParity(groupChunks, groupStart, scheme) ==
    LET parities == generateParityData(groupChunks, scheme)
        groupEnd == groupStart + Len(groupChunks) - 1
    IN  [p \in DOMAIN parities |->
            [key |-> createParityKey(groupStart, groupEnd, DigitStr[p]),
             data |-> parities[p]]]

\* the chunks map of a receiver that misses the chunks at the given
\* positions of the group
HeldChunks(groupChunks, groupStart, missing) ==
    [i \in {groupStart + n - 1 : n \in DOMAIN groupChunks \ missing} |->
        groupChunks[i - groupStart + 1]]

\* recoverChunks(chunks, parity, groupStart, groupSize, scheme) for a group
\* of which one or two chunks are missing
callRecoverChunks(groupChunks, groupStart, missing, scheme) ==
    /\ calc = NoCalc
    /\ calc' = Called("recoverChunks",
                      [groupChunks |-> groupChunks, groupStart |-> groupStart,
                       missing |-> missing, parityCount |-> scheme.parityCount],
                      recoverChunks(HeldChunks(groupChunks, groupStart, missing),
                                    HeldParity(groupChunks, groupStart, scheme),
                                    groupStart, Len(groupChunks), scheme))
    /\ UNCHANGED <<helperVars, currentProtocol, instanceMode, storeVars>>

InitCalc ==
    /\ InitCommon
    /\ instanceMode = "low"
    /\ snd = [s \in SIDS |-> NoCall]
    /\ channel = [s \in SIDS |-> "fifo"]

NextCalc ==
    \/ /\ calc = NoCalc
       /\ \E totalPackets \in 1..MaxTotal : callOverlappingGroups(totalPackets)
    \/ /\ calc = NoCalc
       /\ \E timestamp \in Timestamps, totalPackets \in LengthTotals,
             compress \in BOOLEAN, fecScheme \in Schemes :
             \E n \in LengthPositions(totalPackets) :
                 callPacketLengths(timestamp, totalPackets, n, compress, fecScheme)
    \/ /\ calc = NoCalc
       /\ \E groupChunks \in SolverGroups, groupStart \in {1, 4},
             scheme \in {FEC_SCHEMES.STRONG_OVERLAPPING_3} :
             \E missing \in {m \in SUBSET DOMAIN groupChunks : Cardinality(m) \in {1, 2}} :
                 callRecoverChunks(groupChunks, groupStart, missing, scheme)

SpecCalc == InitCalc /\ [][NextCalc]_vars

(***************************************************************************)
(* Properties                                                              *)
(***************************************************************************)
\* the events of a frame going through handleReceivedPacket: as transmitted,
\* or with a changed payload
FrameKinds == {"frame", "corrupted"}

\* the send of sid ended and every frame of it arrived or was withheld, and
\* no gunzip is pending
Settled(sid) ==
    /\ snd[sid].pc = "done"
    /\ \A k \in 1..Len(wire[sid]) : fed[sid][k] >= 1 \/ k \in withheld[sid]
    /\ awaiting = <<>>

\* sid is the only sender
Alone(sid) == \A other \in SIDS \ {sid} : snd[other].pc = "off"

\* C1: round trip without loss. Whatever the payload (the empty one
\* included), the scheme and the compress flag, once every frame of the send
\* went in emission order through a fresh receiver, the text callback was
\* invoked with exactly the payload.
C1_RoundTrip ==
    \A sid \in SIDS :
        (/\ Alone(sid)
         /\ channel[sid] = "lossy"
         /\ withheld[sid] = {}
         /\ Settled(sid))
        => delivered = <<snd[sid].message>>

\* the hash announced by the START of the session a frame step works on: the
\* hash field of the frame when it is a START, the session's otherwise
AnnouncedHash(sid, k) ==
    IF wire[sid][k][1] = "S" THEN wire[sid][k][4]
    ELSE receiveSessions[sid].expectedHash

C2_Step ==
    /\ lastEvent'.outcome = "hash_mismatch" =>
          /\ lastEvent'.sid \notin DOMAIN receiveSessions'
          /\ delivered' = delivered
          /\ awaiting' = awaiting
    /\ (lastEvent'.kind \in FrameKinds /\ (delivered' # delivered \/ awaiting' # awaiting)) =>
          /\ lastEvent'.outcome = "hash_ok"
          /\ md5Base64(lastEvent'.fullData) = lastEvent'.expectedHash
          /\ lastEvent'.expectedHash = AnnouncedHash(lastEvent'.sid, lastEvent'.idx)
          /\ \/ /\ delivered' = Append(delivered, TextDecode(lastEvent'.fullData))
                /\ awaiting' = awaiting
             \/ /\ delivered' = delivered
                /\ awaiting' = Append(awaiting, [sid |-> lastEvent'.sid,
                                                 fullData |-> lastEvent'.fullData])
    /\ (lastEvent'.kind = "gunzip" /\ delivered' # delivered) =>
          \E n \in DOMAIN awaiting :
              delivered' = Append(delivered, AfterGunzip(awaiting[n].fullData).data)
    /\ lastEvent'.kind \notin FrameKinds \cup {"gunzip"} =>
          delivered' = delivered /\ awaiting' = awaiting

\* C2: hash gate. The receiver delivers (at once or after the gunzip) only a
\* reassembled stream whose MD5 equals the hash announced by the START of
\* its session; when the MD5 differs the session is removed and nothing is
\* delivered or queued for it.
C2_HashGate == [][C2_Step]_vars

\* a completed session was refused for its hash after a DATA frame arrived
\* with a changed payload
C2_Witness ==
    /\ corrupts >= 1
    /\ lastEvent.kind \in FrameKinds
    /\ lastEvent.outcome = "hash_mismatch"
    /\ lastEvent.sid \notin DOMAIN receiveSessions

\* the seq numbers of the withheld DATA frames of sid
WithheldSeqs(sid) == {wire[sid][k][3] : k \in withheld[sid]}

\* the main groups (parity id type 0) of the plan of sid
MainGroups(sid) ==
    LET plan == SendPlan(Len(SendChunks(snd[sid].message, snd[sid].compress)),
                         snd[sid].fecScheme)
    IN  {<<plan[g].start, plan[g].end>> : g \in {x \in DOMAIN plan : plan[x].type = "0"}}

\* C3: FEC 1-loss recovery. For every scheme with parityCount >= 1, every
\* payload and every chunk count, when exactly one DATA frame is withheld
\* and every other frame arrived in emission order, the payload is delivered.
C3_OneLoss ==
    \A sid \in SIDS :
        (/\ Alone(sid)
         /\ channel[sid] = "lossy"
         /\ snd[sid].fecScheme.parityCount >= 1
         /\ Cardinality(withheld[sid]) = 1
         /\ Settled(sid))
        => delivered = <<snd[sid].message>>

\* C4: FEC 2-loss recovery. For the scheme with parityCount >= 2, when two
\* DATA frames of one main group are withheld and every other frame arrived
\* in emission order, the payload is delivered.
C4_TwoLosses ==
    \A sid \in SIDS :
        (/\ Alone(sid)
         /\ channel[sid] = "lossy"
         /\ snd[sid].fecScheme.parityCount >= 2
         /\ Cardinality(withheld[sid]) = 2
         /\ \E g \in MainGroups(sid) : WithheldSeqs(sid) \subseteq g[1]..g[2]
         /\ Settled(sid))
        => delivered = <<snd[sid].message>>

\* what the claims call the state of a session
SessionState(sess) == <<sess.chunks, sess.parity, sess.total, sess.expectedHash>>

\* the step fed a frame of sid again that the receiver was fed before
FedAgain(sid) ==
    /\ lastEvent'.kind = "frame"
    /\ lastEvent'.sid = sid
    /\ fed[sid][lastEvent'.idx] >= 1

\* the step left the session of sid and the deliveries as they were
Untouched(sid) ==
    /\ sid \in DOMAIN receiveSessions'
    /\ SessionState(receiveSessions'[sid]) = SessionState(receiveSessions[sid])
    /\ delivered' = delivered
    /\ awaiting' = awaiting

C5_Step ==
    \A sid \in SIDS :
        (/\ lastEvent'.kind \in FrameKinds
         /\ lastEvent'.sid = sid
         /\ sid \in DOMAIN receiveSessions) =>
            LET frame == wire[sid][lastEvent'.idx]
            IN  IF frame[1] = "S"
                THEN sid \in DOMAIN receiveSessions' =>
                        /\ receiveSessions'[sid].chunks = EmptyMap
                        /\ receiveSessions'[sid].parity = <<>>
                        /\ receiveSessions'[sid].receivedPackets = {PacketId(frame)}
                        /\ receiveSessions'[sid].timeoutId
                               # receiveSessions[sid].timeoutId
                        /\ receiveSessions[sid].timeoutId \notin DOMAIN timers'
                ELSE PacketId(frame) \in receiveSessions[sid].receivedPackets =>
                        Untouched(sid)

C6_Reordered ==
    \A sid \in SIDS :
        (/\ Alone(sid)
         /\ channel[sid] = "perm"
         /\ Settled(sid))
        => delivered = <<snd[sid].message>>

\* C7: concurrent sessions. When the frames of two sends with distinct
\* session ids arrived in any interleaving, each send's frames in emission
\* order and none lost, both payloads are delivered, once each.
C7_BothDelivered ==
    (/\ \A sid \in SIDS : channel[sid] = "fifo" /\ Settled(sid))
    => \/ delivered = <<snd["A"].message, snd["B"].message>>
       \/ delivered = <<snd["B"].message, snd["A"].message>>

\* the parity ids of the PARITY frames sid transmitted, as the receiver
\* stores them
EmittedParityIds(sid) ==
    {normalizeSequencia(wire[sid][k][3]) :
        k \in {x \in 1..Len(wire[sid]) : wire[sid][x][1] = "P"}}

\* C8: group plan determinism. For every total >= 1 and every scheme with
\* groupSize > 0, the sender emits parity for exactly the groups the
\* receiver's recovery pass enumerates: every parity id the sender emitted
\* is a key the pass looks up, and every primary key the pass looks up is a
\* parity id the sender emitted, the last group ending at total.
C8_SamePlan ==
    \A sid \in SIDS :
        LET total == Len(SendChunks(snd[sid].message, snd[sid].compress))
            lookups == PassLookups(total, snd[sid].fecScheme)
        IN  (snd[sid].pc = "done" /\ total >= 1 /\ snd[sid].fecScheme.groupSize > 0)
            => /\ EmittedParityIds(sid) \subseteq lookups
               /\ {key \in lookups : key[3] = "0"} \subseteq EmittedParityIds(sid)

C9_Step ==
    /\ \A sid \in DOMAIN receiveSessions :
          sid \notin DOMAIN receiveSessions' =>
             \/ /\ lastEvent'.kind = "timer"
                /\ lastEvent'.idx = receiveSessions[sid].timeoutId
                /\ lastEvent'.sid = sid
             \/ /\ lastEvent'.kind \in FrameKinds
                /\ lastEvent'.sid = sid
    /\ \A sid \in DOMAIN receiveSessions' :
          /\ receiveSessions'[sid].timeoutId \in DOMAIN timers'
          /\ timers'[receiveSessions'[sid].timeoutId].sid = sid

\* C9: timeout. A session a START created stays in the map, with its timer
\* armed, until that timer fires or a frame of its sid is processed; and it
\* does not stay for ever: with no further frame it is the timer that
\* removes it.
C9_Timeout ==
    /\ [][C9_Step]_vars
    /\ \A sid \in SIDS :
          (sid \in DOMAIN receiveSessions) ~> (sid \notin DOMAIN receiveSessions)

\* the timer removed a session for which the START was the only frame
\* processed
C9_Witness ==
    /\ lastEvent.kind = "timer"
    /\ lastEvent.sid \notin DOMAIN receiveSessions
    /\ Len(fed[lastEvent.sid]) >= 2
    /\ fed[lastEvent.sid][1] = 1
    /\ \A k \in 2..Len(fed[lastEvent.sid]) : fed[lastEvent.sid][k] = 0
    /\ corrupts = 0

\* the frames of one call as C10 lists them: one START, the DATA frames for
\* seq = 1..total, one PARITY frame per record of the plan, one END
ExpectedFrames(id, s) ==
    LET chunks == SendChunks(s.message, s.compress)
        plan == SendPlan(Len(chunks), s.fecScheme)
    IN  <<StartPacket(id, s.message, s.compress, s.fecScheme)>>
        \o [seq \in 1..Len(chunks) |-> DataPacket(id, seq, chunks[seq])]
        \o [g \in 1..Len(plan) |-> ParityPacket(id, chunks, plan[g], s.fecScheme)]
        \o <<EndPacket(id)>>

ProgressPackets(id) == [n \in 1..Len(progressLog[id]) |-> progressLog[id][n].packet]

\* C10: sender emission order. The frames handed to the transport are, in
\* this order, one START, the DATA frames in ascending seq, one PARITY frame
\* per record of the FEC plan in plan order, one END; at most one frame is
\* with the transport at a time; the progress callback of a frame comes
\* before its transmission, in the same order.
C10_EmissionOrder ==
    \A id \in SIDS :
        snd[id].pc # "off" =>
            /\ Len(inflight[id]) <= 1
            /\ IsPrefix(wire[id] \o inflight[id], ProgressPackets(id))
            /\ Len(ProgressPackets(id)) <= Len(wire[id]) + 1
            /\ snd[id].pc # "failed" => ProgressPackets(id) = wire[id] \o inflight[id]
            /\ IsPrefix(ProgressPackets(id), ExpectedFrames(id, snd[id]))
            /\ snd[id].pc = "done" =>
                   inflight[id] = <<>> /\ wire[id] = ExpectedFrames(id, snd[id])

\* a call with several DATA and several PARITY frames ran to its end
C10_Witness ==
    \E id \in SIDS :
        /\ snd[id].pc = "done"
        /\ Len(SendChunks(snd[id].message, snd[id].compress)) >= 2
        /\ Cardinality({k \in 1..Len(wire[id]) : wire[id][k][1] = "P"}) >= 2
        /\ wire[id][Len(wire[id])][1] = "E"

\* the step processed a frame of sid, as transmitted or with a changed payload
FrameOf(sid) == lastEvent'.kind \in FrameKinds /\ lastEvent'.sid = sid

\* the kind of the frame of sid the step processed
FrameType(sid) == wire[sid][lastEvent'.idx][1]

\* the session sid has before the step is not there after it
Gone(sid) ==
    \/ sid \notin DOMAIN receiveSessions'
    \/ receiveSessions'[sid].timeoutId # receiveSessions[sid].timeoutId

\* how many messages went to the text callback or wait for their gunzip
Handed == Len(delivered) + Len(awaiting)

ExitDelivered(sid) ==
    FrameOf(sid) /\ FrameType(sid) # "S" /\ lastEvent'.outcome = "hash_ok"
ExitMismatch(sid) ==
    FrameOf(sid) /\ FrameType(sid) # "S" /\ lastEvent'.outcome = "hash_mismatch"
ExitTimer(sid) ==
    /\ lastEvent'.kind = "timer"
    /\ lastEvent'.sid = sid
    /\ lastEvent'.idx = receiveSessions[sid].timeoutId
ExitReplaced(sid) == FrameOf(sid) /\ FrameType(sid) = "S"

C11_Step ==
    /\ nextTimerId' >= nextTimerId
    /\ \A sid \in DOMAIN receiveSessions :
          Gone(sid) =>
             /\ receiveSessions[sid].timeoutId \notin DOMAIN timers'
             /\ Cardinality({x \in {"delivered", "mismatch", "timer", "replaced"} :
                    \/ x = "delivered" /\ ExitDelivered(sid)
                    \/ x = "mismatch" /\ ExitMismatch(sid)
                    \/ x = "timer" /\ ExitTimer(sid)
                    \/ x = "replaced" /\ ExitReplaced(sid)}) = 1
             /\ Len(delivered') + Len(awaiting')
                  = Handed + (IF ExitDelivered(sid) THEN 1 ELSE 0)
    /\ \A sid \in DOMAIN receiveSessions' :
          \/ /\ sid \in DOMAIN receiveSessions
             /\ receiveSessions'[sid].timeoutId = receiveSessions[sid].timeoutId
          \/ /\ FrameOf(sid)
             /\ FrameType(sid) = "S"
             /\ receiveSessions'[sid].timeoutId = nextTimerId
             /\ nextTimerId' = nextTimerId + 1

TimersOf(sid) == {id \in DOMAIN timers : timers[id].sid = sid}

\* C12: no overlapping timers. In every reachable state, for every sid,
\* exactly one timer is armed if a session of sid is in the map, and it is
\* the timer that session holds; none is armed otherwise. So the timer of a
\* replaced START is not armed any more and cannot delete the newer session.
C12_OneTimer ==
    \A sid \in SIDS \cup DOMAIN receiveSessions :
        IF sid \in DOMAIN receiveSessions
        THEN TimersOf(sid) = {receiveSessions[sid].timeoutId}
        ELSE TimersOf(sid) = {}

\* a START took the place of an open session: the newer session holds the
\* second timer, the first is not armed
C12_Witness ==
    /\ lastEvent.outcome = "replaced"
    /\ lastEvent.sid \in DOMAIN receiveSessions
    /\ receiveSessions[lastEvent.sid].timeoutId = 2
    /\ DOMAIN timers = {2}

\* the step put a frame through handleReceivedPacket: a frame of the send,
\* or a frame of other origin
FrameStep == lastEvent'.kind \in {"frame", "foreign"}

\* the fields of that frame
StepFrame ==
    IF lastEvent'.kind = "foreign" THEN ForeignFrames[lastEvent'.idx]
    ELSE wire[lastEvent'.sid][lastEvent'.idx]

\* a START with all its fields, a numeric total and a hash
ValidStart(parts) ==
    /\ parts[1] = "S"
    /\ Len(parts) >= 5
    /\ parts[5] >= 0
    /\ parts[4] # <<>>

\* the flags field names the scheme: [C,]F<key>
FlagsName(flags, scheme) ==
    \E prefix \in {<<>>, <<"C", ",">>} :
        flags = prefix \o <<"F">> \o KeyChars[scheme.key]

C13_Step ==
    (FrameStep /\ ValidStart(StepFrame) /\ StepFrame[2] \in DOMAIN receiveSessions) =>
        LET parts == StepFrame
            sid == parts[2]
            old == receiveSessions[sid]
        IN  /\ old.timeoutId \notin DOMAIN timers'
            /\ IF sid \in DOMAIN receiveSessions'
               THEN LET new == receiveSessions'[sid]
                    IN  /\ new.total = parts[5]
                        /\ new.expectedHash = parts[4]
                        /\ new.flags = (IF Len(parts) >= 6 THEN parts[6] ELSE <<>>)
                        /\ FlagsName(new.flags, new.fecScheme)
                        /\ new.chunks = EmptyMap
                        /\ new.parity = <<>>
                        /\ new.timeoutId # old.timeoutId
                        /\ new.timeoutId \in DOMAIN timers'
               ELSE parts[5] = 0

PacketPrefixes == {"S", "D", "P", "E", "FILE"}

\* C14: plaintext delivery. Every received text that does not start with
\* one of the prefixes S:, D:, P:, E:, FILE: - whether or not it has a ':' -
\* goes unchanged to the text callback and creates or changes no session.
C14_Plaintext ==
    [][(lastEvent'.kind = "foreign" /\ StepFrame[1] \notin PacketPrefixes) =>
          /\ delivered' = Append(delivered, RawText(StepFrame))
          /\ receiveSessions' = receiveSessions
          /\ timers' = timers]_vars

\* the step handled a text that begins with FILE: - received as it is, or
\* the message of a session that completed without gunzip
FileStep ==
    \/ lastEvent'.kind = "foreign" /\ StepFrame[1] = "FILE"
    \/ /\ FrameStep
       /\ lastEvent'.outcome = "hash_ok"
       /\ awaiting' = awaiting
       /\ StartsWithFILE(TextDecode(lastEvent'.fullData))

\* C15: FILE suppression. For every text that begins with FILE:, received
\* directly or obtained by a completed reassembly, the text callback is not
\* invoked, whether the file adapter succeeds or fails.
C15_FileSuppressed == [][FileStep => delivered' = delivered]_vars

\* the step processed a DATA, PARITY or END frame whose sid has no session
Sessionless ==
    /\ FrameStep
    /\ StepFrame[1] \in {"D", "P", "E"}
    /\ StepFrame[2] \notin DOMAIN receiveSessions

C16_Step ==
    /\ Sessionless =>
          /\ receiveSessions' = receiveSessions
          /\ timers' = timers
          /\ nextTimerId' = nextTimerId
          /\ delivered' = delivered
          /\ awaiting' = awaiting
          /\ batches' = batches
    /\ \A sid \in DOMAIN receiveSessions' :
          sid \notin DOMAIN receiveSessions =>
             FrameStep /\ ValidStart(StepFrame) /\ StepFrame[2] = sid
    /\ nextTimerId' # nextTimerId => FrameStep /\ ValidStart(StepFrame)

\* C16: frames without a session are dropped. A DATA, PARITY or END frame
\* whose sid has no open session creates no session, arms no timer,
\* delivers nothing and leaves every session as it was; only a valid START
\* creates a session or arms a timer.
C16_Dropped == [][C16_Step]_vars

\* a frame of a sid without session arrived while another sid had a session
\* that holds chunks
C16_Witness ==
    /\ lastEvent.kind = "foreign"
    /\ ForeignFrames[lastEvent.idx][1] \in {"D", "P", "E"}
    /\ lastEvent.sid \notin DOMAIN receiveSessions
    /\ \E other \in DOMAIN receiveSessions :
          DOMAIN receiveSessions[other].chunks # {}

\* a text with a character outside the base-64 alphabet, or with a length
\* that is no multiple of 4
InvalidText(text) ==
    \/ \E i \in DOMAIN text : text[i] = B64_BAD
    \/ Len(text) % 4 # 0

\* a DATA or PARITY frame whose payload field is such a text
BadPayload(parts) ==
    /\ parts[1] \in {"D", "P"}
    /\ Len(parts) >= 4
    /\ InvalidText(IF parts[1] = "D" THEN JoinColon(parts, 4) ELSE parts[4])

C17_Step ==
    (FrameStep /\ BadPayload(StepFrame) /\ StepFrame[2] \in DOMAIN receiveSessions) =>
        LET sid == StepFrame[2]
        IN  /\ sid \in DOMAIN receiveSessions'
            /\ receiveSessions'[sid].chunks = receiveSessions[sid].chunks
            /\ receiveSessions'[sid].parity = receiveSessions[sid].parity
            /\ receiveSessions'[sid].timeoutId = receiveSessions[sid].timeoutId
            /\ timers' = timers
            /\ receiveSessions[sid].timeoutId \in DOMAIN timers'
            /\ delivered' = delivered
            /\ awaiting' = awaiting

C18_SeqInRange ==
    \A sid \in DOMAIN receiveSessions :
        DOMAIN receiveSessions[sid].chunks \subseteq 1..receiveSessions[sid].total

\* C19: parity symbols have fixed length. A PARITY frame whose payload
\* decodes to a byte string that is not exactly CHUNK_SIZE bytes long is
\* rejected, so every value in a session's parity map is CHUNK_SIZE bytes.
C19_ParityLength ==
    \A sid \in DOMAIN receiveSessions :
        \A i \in DOMAIN receiveSessions[sid].parity :
            Len(receiveSessions[sid].parity[i].data) = CHUNK_SIZE

\* the parity ids "s-e" and "s-e-t" for 0 < s <= e within the chunk numbers
\* of the model, t one of the types of the plans
IdNumbers == 1..MaxMsgLen
IdTypes == Range(DigitStr) \cup Range(ONames)

\* start-end-type with 0 < start <= end
Canonical(key) == Len(key) = 3 /\ key[1] > 0 /\ key[1] <= key[2]

\* the keys of the parity map of a session
ParityKeys(sess) == {sess.parity[i].key : i \in DOMAIN sess.parity}

\* C20: parity-id normalisation. normalizeSequencia maps "s-e" and "s-e-0"
\* to "s-e-0" for all 0 < s <= e, leaves "s-e-t" with an explicit type as it
\* is, and is idempotent; so PARITY frames with the ids "1-3" and "1-3-0"
\* share one slot of the parity map (no two keys of a map normalise to the
\* same id), and every key of every parity map is in canonical
\* start-end-type form.
C20_Normalised ==
    /\ \A s \in IdNumbers, e \in IdNumbers :
          s <= e =>
             /\ normalizeSequencia(<<s, e>>) = <<s, e, "0">>
             /\ \A t \in IdTypes :
                   /\ normalizeSequencia(<<s, e, t>>) = <<s, e, t>>
                   /\ normalizeSequencia(normalizeSequencia(<<s, e, t>>))
                        = normalizeSequencia(<<s, e, t>>)
    /\ \A sid \in DOMAIN receiveSessions :
          /\ \A i, j \in DOMAIN receiveSessions[sid].parity :
                normalizeSequencia(receiveSessions[sid].parity[i].key)
                  = normalizeSequencia(receiveSessions[sid].parity[j].key) => i = j
          /\ \A key \in ParityKeys(receiveSessions[sid]) : Canonical(key)


\* the flags field has the token C among its comma-separated tokens
HasTokenC(flags) ==
    \E i \in DOMAIN flags :
        /\ flags[i] = "C"
        /\ (i = 1 \/ flags[i - 1] = ",")
        /\ (i = Len(flags) \/ flags[i + 1] = ",")

\* the flags of the session the frame of the step completes: those of the
\* frame when it is a START, those the session holds otherwise
StepFlags ==
    IF ValidStart(StepFrame)
    THEN IF Len(StepFrame) >= 6 THEN StepFrame[6] ELSE <<>>
    ELSE IF lastEvent'.sid \in DOMAIN receiveSessions
         THEN receiveSessions[lastEvent'.sid].flags ELSE <<>>

\* C21: on completion the receiver attempts gunzip if and only if the flags
\* of START have the token C among their comma-separated tokens; no token
\* F<scheme> causes an attempt.
C21_Step ==
    (FrameStep /\ lastEvent'.outcome = "hash_ok") =>
        (Len(awaiting') > Len(awaiting) <=> HasTokenC(StepFlags))

C21_GunzipIffTokenC == [][C21_Step]_vars


\* the PARITY frame of call id for the group start..end with the parity of
\* index p of that group
StrongParityFrame(id, chunks, start, end, p) ==
    <<"P", id, createParityKey(start, end, DigitStr[p + 1]),
      btoa(generateParityData(SubSeq(chunks, start, end),
                              FEC_SCHEMES.STRONG_OVERLAPPING_3)[p + 1])>>

\* C22: strong overlapping parity emission. For STRONG_OVERLAPPING_3 and
\* every total >= 1, a call that ran to its end has emitted, for every main
\* group (start = 1, 4, 7, ...; end = min(start + 2, total)), the three
\* PARITY frames start-end-0, start-end-1 and start-end-2 with the primary,
\* secondary and tertiary parity of the group.
C22_StrongEmission ==
    \A id \in SIDS :
        (snd[id].pc = "done" /\ snd[id].fecScheme = FEC_SCHEMES.STRONG_OVERLAPPING_3) =>
            LET chunks == SendChunks(snd[id].message, snd[id].compress)
            IN  \A start \in {i \in 1..Len(chunks) : i % 3 = 1} :
                    \A p \in 0..2 :
                        StrongParityFrame(id, chunks, start,
                                          Min(start + 2, Len(chunks)), p)
                            \in Range(wire[id])


\* the held parities of primary type of a session whose range start..end
\* has exactly one chunk missing
PrimaryRepairable(sess) ==
    {i \in DOMAIN sess.parity :
        LET p == parseSequencia(sess.parity[i].key)
        IN  /\ p.isValid
            /\ p.tipo = "0"
            /\ Cardinality({s \in p.inicio..p.fim : s \notin DOMAIN sess.chunks}) = 1}

\* C24: aggressive fallback is independent of the declared plan. For every
\* open session, whatever scheme its START declared (NONE included), once a
\* packet has been processed and the message is still incomplete, every held
\* parity of primary type whose range has exactly one missing chunk has been
\* used to restore that chunk: no open session is left with such a parity.
C24_AggressiveAlways ==
    \A sid \in DOMAIN receiveSessions : PrimaryRepairable(receiveSessions[sid]) = {}


\* the held parities of an overlapping group (type O<i>) of a session whose
\* range start..end has exactly one chunk missing
OverlapRepairable(sess) ==
    {i \in DOMAIN sess.parity :
        LET p == parseSequencia(sess.parity[i].key)
        IN  /\ p.isValid
            /\ StartsWithO(p.tipo)
            /\ Cardinality({s \in p.inicio..p.fim : s \notin DOMAIN sess.chunks}) = 1}

\* C23: overlapping groups are used for recovery. Under an overlapping
\* scheme, once a packet has been processed no open session holds the parity
\* of an overlapping group start-end-O<i> with exactly one chunk of
\* start..end missing (the pass restored it), and a restored chunk enables
\* the recovery of an adjacent group: with OVERLAPPING_3, total >= 5 and
\* DATA 2 and 3 withheld, m is delivered.
C23_OverlapRecovery ==
    /\ \A sid \in DOMAIN receiveSessions :
          receiveSessions[sid].fecScheme.overlap =>
              OverlapRepairable(receiveSessions[sid]) = {}
    /\ \A sid \in SIDS :
          (/\ Alone(sid)
           /\ channel[sid] = "lossy"
           /\ snd[sid].fecScheme = FEC_SCHEMES.OVERLAPPING_3
           /\ Len(SendChunks(snd[sid].message, snd[sid].compress)) >= 5
           /\ Settled(sid)
           /\ WithheldSeqs(sid) = {2, 3})
          => delivered = <<snd[sid].message>>


\* the step is a call of resendChunks or resendParity
ResendCalled ==
    /\ Len(tasks') = Len(tasks) + 1
    /\ tasks'[Len(tasks')].op \in {"chunks", "parity"}

\* C25: resend of an unknown session is a reported error. A call of
\* resendChunks or resendParity with a sid that is not in the send-session
\* store fails with an error, transmits no frame (neither at the call nor
\* later) and leaves the store unchanged.
C25_Step ==
    /\ (ResendCalled /\ tasks'[Len(tasks')].sid \notin DOMAIN sendSessions) =>
          /\ tasks'[Len(tasks')].pc = "failed"
          /\ tasks'[Len(tasks')].error = "not_found"
          /\ air' = air
          /\ sendSessions' = sendSessions
          /\ sessionObjects' = sessionObjects
    /\ \A n \in DOMAIN air' : tasks'[air'[n].task].error # "not_found"

C25_UnknownSession == [][C25_Step]_vars

\* a resend was refused for its sid while the store retains another session
C25_Witness ==
    \E t \in DOMAIN tasks :
        /\ tasks[t].op \in {"chunks", "parity"}
        /\ tasks[t].error = "not_found"
        /\ tasks[t].sid \notin DOMAIN sendSessions
        /\ sendSessions # EmptyMap


\* the packets call t transmitted, in order, each with its protocol tag
AirOf(t) == SelectSeq(air, LAMBDA e : e.task = t)

\* the seq numbers of the DATA frames of sid whose transmission completed
DataSeqsOnAir(sid) ==
    {air[n].packet[3] : n \in {x \in DOMAIN air : /\ air[x].packet[1] = "D"
                                                   /\ air[x].packet[2] = sid}}

\* the sendLargeData calls that made the session sid
SendsOf(sid) == {t \in DOMAIN tasks : tasks[t].op = "send" /\ tasks[t].sid = sid}

\* the DATA frame of seq that the sendLargeData call t sends
OriginalData(t, seq) ==
    CHOOSE f \in Range(tasks[t].frames) : f[1] = "D" /\ f[3] = seq

\* what a call of resendChunks on a retained session with a list within
\* 1..total has to transmit: the original DATA frame of each element, in
\* list order, with the protocol of the send
ReplayOf(t) ==
    [n \in 1..Len(tasks[t].list) |->
        LET origin == CHOOSE s \in SendsOf(tasks[t].sid) : TRUE
        IN  [task |-> t, packet |-> OriginalData(origin, tasks[t].list[n]),
             proto |-> tasks[origin].proto]]

\* call t is a resendChunks of a retained session with a list within 1..total
Replaying(t) ==
    /\ tasks[t].op = "chunks"
    /\ tasks[t].error # "not_found"
    /\ \A n \in DOMAIN tasks[t].list :
          tasks[t].list[n] \in 1..sessionObjects[tasks[t].obj].total

\* C26: resend replays retained chunks. For a retained sid and a list of
\* seq numbers in 1..total, resendChunks transmits one DATA frame per list
\* element, in list order, each with the protocol of the session and the
\* retained bytes of the chunk (the frame originally sent for that seq);
\* when it returns, sent_chunks of the session has every listed seq; and
\* sent_chunks of a session of the store never loses an element.
C26_Step ==
    /\ \A t \in DOMAIN tasks' :
          Replaying(t)' =>
             /\ IsPrefix(AirOf(t)', ReplayOf(t)')
             /\ tasks'[t].pc = "returned" =>
                   /\ AirOf(t)' = ReplayOf(t)'
                   /\ tasks'[t].sid \in DOMAIN sendSessions' =>
                         Range(tasks'[t].list)
                            \subseteq sessionObjects'[sendSessions'[tasks'[t].sid]].sentChunks
    /\ \A sid \in DOMAIN sendSessions \cap DOMAIN sendSessions' :
          sessionObjects[sendSessions[sid]].sentChunks
             \subseteq sessionObjects'[sendSessions'[sid]].sentChunks

C26_ResendReplays == [][C26_Step]_vars


\* the session the store holds for sid
Retained(sid) == sessionObjects[sendSessions[sid]]

\* how many chunks the sendLargeData call t has: its frames are START, the
\* DATA frames, the PARITY frames and END
TotalOf(t) == Cardinality({n \in DOMAIN tasks[t].frames : tasks[t].frames[n][1] = "D"})

\* C27: failed emission. When the transmission of a frame of sendLargeData
\* fails, the call fails with that error and emits no further frame, and
\* the store still holds the session with sent_chunks equal to the set of
\* DATA seqs whose transmission completed before the failure; when the call
\* completes and no delete or clear was invoked, the store holds the
\* session with sent_chunks = 1..total.
C27_Step ==
    \A t \in DOMAIN tasks :
        tasks[t].op = "send" =>
            /\ (tasks[t].pc = "tx" /\ tasks'[t].pc = "failed") =>
                  /\ tasks'[t].error = "transmit"
                  /\ air' = air
                  /\ removals' = 0 =>
                        /\ tasks[t].sid \in DOMAIN sendSessions'
                        /\ Retained(tasks[t].sid)'.sentChunks
                              = DataSeqsOnAir(tasks[t].sid)'
            /\ tasks[t].pc = "failed" => tasks'[t] = tasks[t] /\ AirOf(t)' = AirOf(t)
            /\ (tasks[t].pc = "tx" /\ tasks'[t].pc = "returned" /\ removals' = 0) =>
                  /\ tasks[t].sid \in DOMAIN sendSessions'
                  /\ Retained(tasks[t].sid)'.sentChunks = 1..TotalOf(t)

C27_FailedEmission == [][C27_Step]_vars

\* the step is a call of sendLargeData
SendCalled ==
    /\ Len(tasks') = Len(tasks) + 1
    /\ tasks'[Len(tasks')].op = "send"

\* C28: session ids are unique. Any two distinct sendLargeData calls, two
\* calls within the same second included, use different session ids: the
\* id of a call is the id of no earlier call, and the call does not
\* overwrite a session the store retains.
C28_Step ==
    SendCalled =>
        /\ SendsOf(tasks'[Len(tasks')].sid) = {}
        /\ tasks'[Len(tasks')].sid \notin DOMAIN sendSessions

C28_UniqueIds == [][C28_Step]_vars


\* the session of sid holds every chunk of 1..total
AllPresent(sess) == \A seq \in 1..sess.total : seq \in DOMAIN sess.chunks

\* C29: END is advisory. An END frame never removes a session that still
\* misses chunks once the frame was processed: the session stays open with
\* its timer armed; and a session that holds all its chunks 1..total is
\* handed over at the step that brought the last of them, END received or
\* not, so that no open session holds all its chunks.
C29_Step ==
    /\ (FrameStep /\ StepFrame[1] = "E" /\ lastEvent'.sid \in DOMAIN receiveSessions) =>
          \/ /\ lastEvent'.outcome \in {"hash_ok", "hash_mismatch"}
             /\ Len(lastEvent'.fullData) > 0 \/ receiveSessions[lastEvent'.sid].total = 0
          \/ /\ lastEvent'.sid \in DOMAIN receiveSessions'
             /\ receiveSessions'[lastEvent'.sid].timeoutId
                  = receiveSessions[lastEvent'.sid].timeoutId
             /\ receiveSessions'[lastEvent'.sid].timeoutId \in DOMAIN timers'
    /\ \A sid \in DOMAIN receiveSessions' : ~AllPresent(receiveSessions'[sid])

C29_EndAdvisory == [][C29_Step]_vars


\* the gunzip promise of the entry n of awaiting settled in this step
Settles(n) ==
    /\ n \in DOMAIN awaiting
    /\ awaiting' = SubSeq(awaiting, 1, n - 1) \o SubSeq(awaiting, n + 1, Len(awaiting))

\* C30: gunzip failure falls back to the raw bytes. When a session completes
\* with a matching hash, the C flag is detected and gunzip of the
\* concatenation fails, the raw concatenation decoded as text goes to the
\* text callback; the hash is checked on the bytes before decompression.
C30_Step ==
    /\ lastEvent'.kind = "gunzip" =>
          \E n \in DOMAIN awaiting :
              /\ Settles(n)
              /\ ~decompressData(awaiting[n].fullData).ok =>
                    delivered' = Append(delivered, TextDecode(awaiting[n].fullData))
    /\ Len(awaiting') > Len(awaiting) =>
          /\ lastEvent'.outcome = "hash_ok"
          /\ awaiting'[Len(awaiting')].fullData = lastEvent'.fullData
          /\ md5Base64(lastEvent'.fullData) = lastEvent'.expectedHash

C30_GunzipFallback == [][C30_Step]_vars


\* the comma-separated tokens of a flags field
RECURSIVE FlagTokens(_)
FlagTokens(flags) ==
    IF \E i \in DOMAIN flags : flags[i] = ","
    THEN LET i == CHOOSE x \in DOMAIN flags :
                     flags[x] = "," /\ \A y \in 1..(x - 1) : flags[y] # ","
         IN  <<SubSeq(flags, 1, i - 1)>> \o FlagTokens(SubSeq(flags, i + 1, Len(flags)))
    ELSE <<flags>>

\* the scheme the tokens announce: that of the first token F<name> when the
\* name is a key of FEC_SCHEMES, the default otherwise
TokenScheme(flags) ==
    LET tokens == FlagTokens(flags)
        fs == {n \in DOMAIN tokens : tokens[n] # <<>> /\ tokens[n][1] = "F"}
    IN  IF fs = {} THEN DEFAULT_FEC_SCHEME
        ELSE LET name == Tail(tokens[CHOOSE n \in fs : \A m \in fs : n <= m])
             IN  IF \E k \in SchemeKeys : KeyChars[k] = name
                 THEN FEC_SCHEMES[CHOOSE k \in SchemeKeys : KeyChars[k] = name]
                 ELSE DEFAULT_FEC_SCHEME

\* the step put a START of StartFrames through handleReceivedPacket
StartStep == lastEvent'.kind = "start"

\* C31: unknown FEC token. A START whose flags have no token F<name>, or
\* whose first such token names no scheme of FEC_SCHEMES, still creates the
\* session, with the scheme STRONG_OVERLAPPING_3; a START whose first token
\* F<name> names a scheme creates the session with exactly that scheme.
C31_Step ==
    StartStep =>
        LET parts == StartFrames[lastEvent'.idx]
            sid == lastEvent'.sid
        IN  /\ sid \in DOMAIN receiveSessions'
            /\ receiveSessions'[sid].fecScheme = TokenScheme(parts[6])

C31_UnknownToken == [][C31_Step]_vars

\* every token of the flags is C, F<name> with a name in capitals, digits
\* and underscores, or holds no F
PlainTokens(flags) ==
    \A n \in DOMAIN FlagTokens(flags) :
        LET token == FlagTokens(flags)[n]
        IN  \/ \A i \in DOMAIN token : token[i] # "F"
            \/ /\ token[1] = "F"
               /\ \A i \in 2..Len(token) : token[i] \in FlagClass \ {"F"}

C31_PlainStep ==
    (StartStep /\ PlainTokens(StartFrames[lastEvent'.idx][6])) => C31_Step

C31_PlainTokens == [][C31_PlainStep]_vars


\* the pairs (start, end) of the main groups of a plan for total chunks
MainPairs(total) == {<<s, Min(s + 2, total)>> : s \in {x \in 1..total : x % 3 = 1}}

\* the starts of the overlapping groups C32 lists, in ascending order
OverlapStarts(total) ==
    SortedSeq({i \in 2..(total - 2) : <<i, i + 2>> \notin MainPairs(total)})

ReceiverProtocol ==
    IF currentProtocol # "" \/ instanceMode # "absent"
    THEN inferCurrentProtocol(currentProtocol, instanceMode)
    ELSE ""

\* 3, 2, 1 for a protocol tagged NORMAL, FAST (not FASTEST), FASTEST, and 1
\* for an unknown one
SpeedMult(name) ==
    IF name = "" THEN 1
    ELSE IF IncludesNORMAL(name) THEN 3
    ELSE IF IncludesFASTEST(name) THEN 1
    ELSE IF IncludesFAST(name) THEN 2
    ELSE 1

\* C33: timeout value. The deadline a START with chunk count total arms is
\* max(60000, 30000 + total * 5000 * speed_mult) milliseconds, speed_mult
\* being 3, 2, 1 for a receiver protocol tagged NORMAL, FAST (not FASTEST),
\* FASTEST, and 1 when the receiver's protocol is unknown.
C33_Step ==
    StartStep =>
        LET total == StartFrames[lastEvent'.idx][5]
            sid == lastEvent'.sid
        IN  /\ sid \in DOMAIN receiveSessions'
            /\ receiveSessions'[sid].timeoutId \in DOMAIN timers'
            /\ timers'[receiveSessions'[sid].timeoutId].ms
                 = Max(MIN_SESSION_TIMEOUT_MS,
                       SESSION_TIMEOUT_BASE_MS
                       + total * SESSION_TIMEOUT_PER_PACKET_MS * SpeedMult(ReceiverProtocol))

C33_TimeoutValue == [][C33_Step]_vars

\* the same for a receiver that recorded a protocol or has an instance to ask
C33_KnownStep == (StartStep /\ ReceiverProtocol # "") => C33_Step

C33_KnownProtocol == [][C33_KnownStep]_vars


\* C34: frame length bound. Every packet sendLargeData writes (START with
\* any flags, every DATA packet, every PARITY packet, overlapping ids
\* start-end-O{i} included, and END) has at most 140 characters, for every
\* total from 1 to 9 999 999 and every scheme, with the id of
\* generateSessionId.
C34_FrameLength ==
    calc.op = "sendLargeData" =>
        /\ calc.out.S <= 140
        /\ calc.out.D <= 140
        /\ \A length \in calc.out.P : length <= 140
        /\ calc.out.E <= 140

\* the same for the schemes without overlapping groups and, with them, for
\* groups that start below chunk 100 000
C34_ShortIds ==
    (/\ calc.op = "sendLargeData"
     /\ \/ ~FEC_SCHEMES[calc.args[5]].overlap
        \/ calc.args[3] < 100000) =>
        /\ calc.out.S <= 140
        /\ calc.out.D <= 140
        /\ \A length \in calc.out.P : length <= 140
        /\ calc.out.E <= 140


\* the parity ids of the FEC plan of a send session
PlanIds(session) ==
    {FountainGroups(session.total, session.fecScheme)[g].type :
        g \in DOMAIN FountainGroups(session.total, session.fecScheme)}

\* C35: eager parity retention. For a scheme whose FEC plan for total is not
\* empty, the parity map of the send session holds one symbol for every
\* record of the plan; after sendLargeData sent_parity is the set of the
\* parity ids of the plan; and every PARITY frame transmitted, by
\* sendLargeData or by a later resendParity, carries the bytes retained
\* under its id.
C35_EagerParity ==
    /\ \A n \in DOMAIN sessionObjects :
          PlanIds(sessionObjects[n]) # {} =>
              DOMAIN sessionObjects[n].parity = PlanIds(sessionObjects[n])
    /\ \A t \in DOMAIN tasks :
          (/\ tasks[t].op = "send"
           /\ tasks[t].pc = "returned"
           /\ tasks[t].obj # 0
           /\ PlanIds(sessionObjects[tasks[t].obj]) # {}) =>
              sessionObjects[tasks[t].obj].sentParity
                 = PlanIds(sessionObjects[tasks[t].obj])
    /\ \A n \in DOMAIN air :
          (air[n].packet[1] = "P" /\ tasks[air[n].task].obj # 0) =>
              LET held == sessionObjects[tasks[air[n].task].obj].parity
              IN  /\ air[n].packet[3] \in DOMAIN held
                  /\ air[n].packet[4] = btoa(held[air[n].packet[3]])


\* a DATA frame with a seq number and a payload that passes validation
ValidData(parts) ==
    /\ parts[1] = "D"
    /\ Len(parts) >= 4
    /\ ~IsNaNField(parts[3])
    /\ validateAndDecodeBase64(JoinColon(parts, 4)).ok

\* a DATA frame for seq of the session was dropped because its payload
\* failed validation: the session has seen the frame and holds no chunk
\* for it
DroppedMalformed(sess, parts) ==
    /\ PacketId(parts) \in sess.receivedPackets
    /\ parts[3] \notin DOMAIN sess.chunks

\* C36: a dropped malformed DATA frame does not block its seq. After a DATA
\* frame for seq k was dropped because its payload failed base-64
\* validation, a later DATA frame for the same sid and seq k with a valid
\* payload is accepted and stored under chunks[k] (the session may complete
\* with it in the same step).
C36_Step ==
    (/\ FrameStep
     /\ ValidData(StepFrame)
     /\ StepFrame[2] \in DOMAIN receiveSessions
     /\ DroppedMalformed(receiveSessions[StepFrame[2]], StepFrame)) =>
        LET sid == StepFrame[2]
            seq == StepFrame[3]
        IN  \/ lastEvent'.outcome \in {"hash_ok", "hash_mismatch"}
            \/ /\ sid \in DOMAIN receiveSessions'
               /\ seq \in DOMAIN receiveSessions'[sid].chunks
               /\ receiveSessions'[sid].chunks[seq]
                    = validateAndDecodeBase64(JoinColon(StepFrame, 4)).bytes

C36_MalformedNoBlock == [][C36_Step]_vars


\* the step put the DATA frame of seq, as transmitted, through
\* handleReceivedPacket
DataArrives(sid, seq) ==
    /\ lastEvent'.kind = "frame"
    /\ lastEvent'.sid = sid
    /\ wire[sid][lastEvent'.idx][1] = "D"
    /\ wire[sid][lastEvent'.idx][3] = seq

\* the session of sid is the same before and after the step
SameSession(sid) ==
    /\ sid \in DOMAIN receiveSessions
    /\ sid \in DOMAIN receiveSessions'
    /\ receiveSessions'[sid].timeoutId = receiveSessions[sid].timeoutId

\* no step changes or removes the bytes of a seq that is present, unless it
\* is the arrival of the DATA frame of that seq
KeepsPresent ==
    \A sid \in SIDS :
        SameSession(sid) =>
            \A seq \in DOMAIN receiveSessions[sid].chunks :
                /\ seq \in DOMAIN receiveSessions'[sid].chunks
                /\ \/ receiveSessions'[sid].chunks[seq] = receiveSessions[sid].chunks[seq]
                   \/ DataArrives(sid, seq)

\* the DATA frame of a seq arrives when the seq is present though the frame
\* never arrived before (recovery filled it): its bytes replace the
\* recovered ones, or the session completes in the step
ReplacesRecovered ==
    \A sid \in DOMAIN receiveSessions :
        \A seq \in DOMAIN receiveSessions[sid].chunks :
            DataArrives(sid, seq) =>
                \/ lastEvent'.outcome \in {"hash_ok", "hash_mismatch"}
                \/ /\ sid \in DOMAIN receiveSessions'
                   /\ seq \in DOMAIN receiveSessions'[sid].chunks
                   /\ receiveSessions'[sid].chunks[seq]
                        = atob(wire[sid][lastEvent'.idx][4])

\* C37: recovery only fills gaps. No recovery pass (standard groups,
\* overlapping groups, aggressive fallback) changes or removes the bytes
\* stored for a seq that is present in chunks; a DATA frame for a seq that
\* recovery filled replaces the recovered bytes with the received bytes.
C37_Step == KeepsPresent /\ ReplacesRecovered

C37_OnlyFillsGaps == [][C37_Step]_vars

\* the first half alone
C37_KeepsPresent == [][KeepsPresent]_vars

\* the second half for a DATA frame whose packet id the session has not seen
C37_FreshStep ==
    \A sid \in DOMAIN receiveSessions :
        \A seq \in DOMAIN receiveSessions[sid].chunks :
            (/\ DataArrives(sid, seq)
             /\ <<"D", sid, seq>> \notin receiveSessions[sid].receivedPackets) =>
                \/ lastEvent'.outcome \in {"hash_ok", "hash_mismatch"}
                \/ /\ sid \in DOMAIN receiveSessions'
                   /\ seq \in DOMAIN receiveSessions'[sid].chunks
                   /\ receiveSessions'[sid].chunks[seq]
                        = atob(wire[sid][lastEvent'.idx][4])

C37_FreshReplaces == [][C37_FreshStep]_vars


\* what recoverChunks has to return for the call: the original chunk of
\* every missing position, under its seq
OriginalsOf(call) ==
    [i \in {call.groupStart + n - 1 : n \in call.missing} |->
        call.groupChunks[i - call.groupStart + 1]]

\* C38: single-loss recovery is exact for chunks that do not end in a zero
\* byte. For every group and chunks of at most CHUNK_SIZE bytes, when
\* exactly one chunk of the group is missing, its last byte is not zero and
\* the held primary parity is the XOR of the zero-padded chunks of the
\* group, recovery stores for it the original bytes, in their length.
C38_SingleLossExact ==
    (/\ calc.op = "recoverChunks"
     /\ Cardinality(calc.args.missing) = 1
     /\ \A n \in calc.args.missing :
           calc.args.groupChunks[n][Len(calc.args.groupChunks[n])] # 0) =>
        calc.out = OriginalsOf(calc.args)

\* the middle chunk of a group of three, shorter than CHUNK_SIZE, was
\* recovered from chunks that are not all zero
C38_Witness ==
    /\ calc.op = "recoverChunks"
    /\ calc.args.missing = {2}
    /\ Len(calc.args.groupChunks) = 3
    /\ calc.args.groupStart = 4
    /\ calc.args.groupChunks[2] = <<255>>
    /\ calc.args.groupChunks[1] = <<1, 255>>
    /\ calc.args.groupChunks[3] = <<255, 1>>
    /\ calc.out = (5 :> <<255>>)

\* C39: the 2-missing solver inverts the parity definition. For every
\* group, when exactly two chunks are missing and the held primary and
\* secondary parities are those generateParityData makes from the original
\* chunks, the two byte strings recoverChunks returns are the two original
\* chunks, for every byte value, assigned to the missing seqs in ascending
\* order.
C39_TwoLossExact ==
    (/\ calc.op = "recoverChunks"
     /\ Cardinality(calc.args.missing) = 2
     /\ calc.args.parityCount >= 2) =>
        calc.out = OriginalsOf(calc.args)


\* the sids of the completed sessions whose gunzip promise is pending
AwaitingSids == {awaiting[n].sid : n \in DOMAIN awaiting}

\* the step ran handleReceivedPacket on a packet of sid
PacketOf(sid) ==
    /\ FrameStep
    /\ StepFrame[1] \in {"S", "D", "P", "E"}
    /\ StepFrame[2] = sid

\* the packet of sid arrived while the gunzip of a completed session of sid
\* was pending
LateFrame(sid) == PacketOf(sid) /\ sid \in AwaitingSids

\* no session of the map holds as many chunks as its START announced: the
\* call that stores or recovers the last chunk has checked and removed it
NoCompleteSession ==
    \A sid \in DOMAIN receiveSessions :
        Cardinality(DOMAIN receiveSessions[sid].chunks) # receiveSessions[sid].total

C40_Step ==
    /\ NoCompleteSession'
    /\ lastEvent'.kind = "gunzip" =>
          /\ receiveSessions' = receiveSessions
          /\ timers' = timers
          /\ Len(delivered') <= Len(delivered) + 1
    /\ Len(awaiting') > Len(awaiting) =>
          /\ lastEvent'.outcome = "hash_ok"
          /\ awaiting'[Len(awaiting')].sid = lastEvent'.sid
          /\ lastEvent'.sid \notin DOMAIN receiveSessions'
    /\ \A sid \in SIDS :
          /\ (PacketOf(sid) /\ Len(delivered') + Len(awaiting') # Handed) =>
                /\ Len(delivered') + Len(awaiting') = Handed + 1
                /\ sid \notin DOMAIN receiveSessions'
                /\ sid \in DOMAIN receiveSessions \/ StepFrame[1] = "S"
          /\ (LateFrame(sid) /\ sid \notin DOMAIN receiveSessions
                             /\ StepFrame[1] # "S") =>
                /\ receiveSessions' = receiveSessions
                /\ timers' = timers
                /\ nextTimerId' = nextTimerId
                /\ delivered' = delivered
                /\ awaiting' = awaiting
                /\ batches' = batches
          /\ (/\ sid \in AwaitingSids'
              /\ sid \in DOMAIN receiveSessions'
              /\ sid \notin AwaitingSids \/ sid \notin DOMAIN receiveSessions) =>
                /\ PacketOf(sid)
                /\ ValidStart(StepFrame)
                /\ sid \in AwaitingSids
                /\ receiveSessions'[sid].timeoutId = nextTimerId
                /\ DOMAIN receiveSessions'[sid].chunks = {}
                /\ delivered' = delivered
                /\ awaiting' = awaiting

=============================================================================
